---- MODULE Spec2Model ----
(***************************************************************************)
(* A model of the routing and coordination core of the health assistant:   *)
(* the input classifiers (utils/helpers.py), the Log Store                 *)
(* (database/db_manager.py), the Domain Agents, the Router, the Pattern    *)
(* Analysis agent and the Insights Coordinator (agents/*.py).              *)
(*                                                                         *)
(* Text is modelled as a sequence of one-character strings, so that the    *)
(* substring tests, prefix splits, trims, case conversions and regular     *)
(* expressions of the code are computed character by character.            *)
(***************************************************************************)
EXTENDS Integers, Sequences, FiniteSets, TLC

(***************************************************************************)
(* Text primitives: the Python str operations the code uses.               *)
(***************************************************************************)
Min(S) == CHOOSE x \in S : \A y \in S : x <= y

Max(S) == CHOOSE x \in S : \A y \in S : x >= y

DIGITS ==
    <<"0", "1", "2", "3", "4", "5", "6", "7", "8", "9">>

UPPERCASE ==
    <<"A", "B", "C", "D", "E", "F", "G", "H", "I", "J", "K", "L", "M", "N", "O", "P", "Q", "R", "S", "T", "U", "V", "W", "X", "Y", "Z">>

LOWERCASE ==
    <<"a", "b", "c", "d", "e", "f", "g", "h", "i", "j", "k", "l", "m", "n", "o", "p", "q", "r", "s", "t", "u", "v", "w", "x", "y", "z">>

\* The characters \s matches and str.strip() removes.
WHITESPACE == {" ", "\t", "\n"}

DigitChars == {DIGITS[i] : i \in 1..Len(DIGITS)}

IsDigit(c) == c \in DigitChars

DigitValue(c) == (CHOOSE i \in 1..Len(DIGITS) : DIGITS[i] = c) - 1

LetterIndex(letters, c) == CHOOSE i \in 1..Len(letters) : letters[i] = c

UpperChars == {UPPERCASE[i] : i \in 1..Len(UPPERCASE)}

LowerChars == {LOWERCASE[i] : i \in 1..Len(LOWERCASE)}

lower_char(c) ==
    IF c \in UpperChars THEN LOWERCASE[LetterIndex(UPPERCASE, c)] ELSE c

upper_char(c) ==
    IF c \in LowerChars THEN UPPERCASE[LetterIndex(LOWERCASE, c)] ELSE c

\* str.lower()
lower(s) == IF s = <<>> THEN <<>> ELSE [i \in 1..Len(s) |-> lower_char(s[i])]

\* str.upper()
upper(s) == IF s = <<>> THEN <<>> ELSE [i \in 1..Len(s) |-> upper_char(s[i])]

\* str.strip()
strip(s) ==
    LET keep == {i \in 1..Len(s) : s[i] \notin WHITESPACE}
    IN  IF keep = {} THEN <<>> ELSE SubSeq(s, Min(keep), Max(keep))

\* str.rstrip(chars)
rstrip(s, chars) ==
    LET keep == {i \in 1..Len(s) : s[i] \notin chars}
    IN  IF keep = {} THEN <<>> ELSE SubSeq(s, 1, Max(keep))

\* sub occurs in s at position i
OccursAt(sub, s, i) ==
    /\ i >= 1
    /\ i + Len(sub) - 1 <= Len(s)
    /\ SubSeq(s, i, i + Len(sub) - 1) = sub

\* Python's "sub in s"
Contains(sub, s) == \E i \in 1..Len(s) : OccursAt(sub, s, i)

\* str.startswith(sub)
startswith(s, sub) == OccursAt(sub, s, 1)

\* any(word in s for word in words), words a sequence of texts
any_in(words, s) == \E k \in 1..Len(words) : Contains(words[k], s)

\* s.split(sub, 1)[1] when sub occurs in s: the text after the first occurrence
after_first(s, sub) ==
    LET at == Min({i \in 1..Len(s) : OccursAt(sub, s, i)})
    IN  SubSeq(s, at + Len(sub), Len(s))

\* int(digits) / float(digits) of a run of decimal digits
RECURSIVE to_number(_)
to_number(ds) ==
    IF ds = <<>> THEN 0
    ELSE 10 * to_number(SubSeq(ds, 1, Len(ds) - 1)) + DigitValue(ds[Len(ds)])

\* first position at or after k that is past the run of characters of class
\* (the end of a greedy \d+ , \s* or [:\s]+ that starts at k)
RunEnd(s, k, class) ==
    Min({e \in k..(Len(s) + 1) : e = Len(s) + 1 \/ s[e] \notin class})

(***************************************************************************)
(* Input classifiers (utils/helpers.py)                                    *)
(***************************************************************************)

W_glucose ==
    <<"g", "l", "u", "c", "o", "s", "e">>

W_blood_sugar ==
    <<"b", "l", "o", "o", "d", " ", "s", "u", "g", "a", "r">>

W_for ==
    <<"f", "o", "r">>

duration_units ==
    <<
      <<"m", "i", "n">>,
      <<"m", "i", "n", "u", "t", "e">>,
      <<"m", "i", "n", "u", "t", "e", "s">> >>

prefixes ==
    <<
      <<"i", " ", "a", "t", "e", " ">>,
      <<"i", " ", "h", "a", "d", " ">>,
      <<"i", " ", "j", "u", "s", "t", " ", "a", "t", "e", " ">>,
      <<"i", " ", "j", "u", "s", "t", " ", "h", "a", "d", " ">>,
      <<"l", "o", "g", " ", "m", "e", "a", "l", ":", " ">>,
      <<"l", "o", "g", " ", "m", "e", "a", "l", " ">>,
      <<"a", "t", "e", " ">>,
      <<"h", "a", "d", " ">>,
      <<"m", "e", "a", "l", ":", " ">>,
      <<"f", "o", "r", " ", "b", "r", "e", "a", "k", "f", "a", "s", "t", " ">>,
      <<"f", "o", "r", " ", "l", "u", "n", "c", "h", " ">>,
      <<"f", "o", "r", " ", "d", "i", "n", "n", "e", "r", " ">> >>

activities ==
    <<
      <<"r", "u", "n">>,
      <<"r", "u", "n", "n", "i", "n", "g">>,
      <<"j", "o", "g">>,
      <<"j", "o", "g", "g", "i", "n", "g">>,
      <<"w", "a", "l", "k">>,
      <<"w", "a", "l", "k", "i", "n", "g">>,
      <<"y", "o", "g", "a">>,
      <<"p", "i", "l", "a", "t", "e", "s">>,
      <<"s", "w", "i", "m">>,
      <<"s", "w", "i", "m", "m", "i", "n", "g">>,
      <<"b", "i", "k", "e">>,
      <<"b", "i", "k", "i", "n", "g">>,
      <<"c", "y", "c", "l", "i", "n", "g">>,
      <<"g", "y", "m">>,
      <<"w", "o", "r", "k", "o", "u", "t">>,
      <<"e", "x", "e", "r", "c", "i", "s", "e">>,
      <<"s", "t", "r", "e", "n", "g", "t", "h">>,
      <<"w", "e", "i", "g", "h", "t", "s">>,
      <<"l", "i", "f", "t", "i", "n", "g">> >>

estimates ==
    <<
      [keyword |-> <<"s", "a", "l", "a", "d">>, calories |-> 200, carbs |-> 15, protein |-> 10, fats |-> 10],
      [keyword |-> <<"c", "h", "i", "c", "k", "e", "n">>, calories |-> 350, carbs |-> 5, protein |-> 40, fats |-> 15],
      [keyword |-> <<"o", "a", "t", "m", "e", "a", "l">>, calories |-> 300, carbs |-> 50, protein |-> 10, fats |-> 6],
      [keyword |-> <<"e", "g", "g", "s">>, calories |-> 150, carbs |-> 2, protein |-> 12, fats |-> 10],
      [keyword |-> <<"y", "o", "g", "u", "r", "t">>, calories |-> 150, carbs |-> 20, protein |-> 10, fats |-> 3],
      [keyword |-> <<"s", "a", "n", "d", "w", "i", "c", "h">>, calories |-> 400, carbs |-> 45, protein |-> 20, fats |-> 15],
      [keyword |-> <<"p", "i", "z", "z", "a">>, calories |-> 500, carbs |-> 60, protein |-> 20, fats |-> 20],
      [keyword |-> <<"p", "a", "s", "t", "a">>, calories |-> 450, carbs |-> 70, protein |-> 15, fats |-> 10],
      [keyword |-> <<"r", "i", "c", "e">>, calories |-> 350, carbs |-> 75, protein |-> 7, fats |-> 1],
      [keyword |-> <<"b", "u", "r", "g", "e", "r">>, calories |-> 600, carbs |-> 45, protein |-> 30, fats |-> 30] >>

calorie_rates ==
    <<
      [activity |-> <<"r", "u", "n">>, rate |-> 10],
      [activity |-> <<"r", "u", "n", "n", "i", "n", "g">>, rate |-> 10],
      [activity |-> <<"j", "o", "g">>, rate |-> 8],
      [activity |-> <<"j", "o", "g", "g", "i", "n", "g">>, rate |-> 8],
      [activity |-> <<"w", "a", "l", "k">>, rate |-> 4],
      [activity |-> <<"w", "a", "l", "k", "i", "n", "g">>, rate |-> 4],
      [activity |-> <<"y", "o", "g", "a">>, rate |-> 3],
      [activity |-> <<"s", "w", "i", "m">>, rate |-> 9],
      [activity |-> <<"s", "w", "i", "m", "m", "i", "n", "g">>, rate |-> 9],
      [activity |-> <<"b", "i", "k", "e">>, rate |-> 8],
      [activity |-> <<"b", "i", "k", "i", "n", "g">>, rate |-> 8],
      [activity |-> <<"c", "y", "c", "l", "i", "n", "g">>, rate |-> 8],
      [activity |-> <<"s", "t", "r", "e", "n", "g", "t", "h">>, rate |-> 5],
      [activity |-> <<"w", "e", "i", "g", "h", "t", "s">>, rate |-> 5],
      [activity |-> <<"g", "y", "m">>, rate |-> 6],
      [activity |-> <<"w", "o", "r", "k", "o", "u", "t">>, rate |-> 6] >>

meal_type_words ==
    <<
      <<"b", "r", "e", "a", "k", "f", "a", "s", "t">>,
      <<"l", "u", "n", "c", "h">>,
      <<"d", "i", "n", "n", "e", "r">>,
      <<"s", "n", "a", "c", "k">> >>

\* Python's None, as the result of a classifier that did not match
NoGlucose == [found |-> FALSE, value |-> 0]

\* r'(\d{2,3})\s*(?:mg/dl|mg/dL|mgdl)?' under re.search: the leftmost position
\* that starts two digits; the group takes a third digit when there is one
\* the value of the two or three digits that start at position i
digits_value(s, i) ==
    to_number(SubSeq(s, i, IF i + 2 <= Len(s) /\ IsDigit(s[i + 2]) THEN i + 2 ELSE i + 1))

\* the match that starts leftmost among the positions `starts` of s
leftmost_value(s, starts) ==
    IF starts = {} THEN NoGlucose
    ELSE [found |-> TRUE, value |-> digits_value(s, Min(starts))]

glucose_pattern_number(s) ==
    leftmost_value(s, {i \in 1..(Len(s) - 1) : IsDigit(s[i]) /\ IsDigit(s[i + 1])})

\* r'glucose[:\s]+(\d{2,3})' and r'blood sugar[:\s]+(\d{2,3})' under
\* re.search with re.IGNORECASE: the leftmost occurrence of the keyword that
\* is followed by one or more of ':' and whitespace and then two digits
keyword_at(keyword, s, j) ==
    /\ j + Len(keyword) - 1 <= Len(s)
    /\ \A k \in 1..Len(keyword) : lower_char(s[j + k - 1]) = keyword[k]

\* two digits stand at position d, which is past position k
two_digits_past(s, k, d) ==
    /\ d > k
    /\ d + 1 <= Len(s)
    /\ IsDigit(s[d])
    /\ IsDigit(s[d + 1])

glucose_pattern_keyword(keyword, s) ==
    leftmost_value(s,
        {d \in 1..Len(s) :
            \E j \in 1..Len(s) :
                /\ keyword_at(keyword, s, j)
                /\ d = RunEnd(s, j + Len(keyword), WHITESPACE \cup {":"})
                /\ two_digits_past(s, j + Len(keyword), d)})

\* lower and upper end of the range parse_glucose_input accepts
GLUCOSE_MIN == 50

GLUCOSE_MAX == 400

\* a match taken whatever its value
in_range_unchecked(pattern) == pattern.found

in_range(pattern) ==
    /\ pattern.found
    /\ GLUCOSE_MIN <= pattern.value
    /\ pattern.value <= GLUCOSE_MAX

\* the first of the three matches that lies in the range, if any
first_in_range(first, second, third) ==
    IF in_range(first) THEN first
    ELSE IF in_range(second) THEN second
    ELSE IF in_range(third) THEN third
    ELSE NoGlucose

parse_glucose_input(user_message) ==
    first_in_range(glucose_pattern_number(user_message),
                   glucose_pattern_keyword(W_glucose, user_message),
                   glucose_pattern_keyword(W_blood_sugar, user_message))

NoMeal == [found |-> FALSE, meal |-> <<>>]

parse_meal_input(user_message) ==
    LET message == lower(user_message)
        hits == {k \in 1..Len(prefixes) : Contains(prefixes[k], message)}
    IN  IF hits = {} THEN NoMeal
        ELSE [found |-> TRUE,
              meal  |-> rstrip(strip(after_first(message, prefixes[Min(hits)])),
                               {".", ",", "!", "?"})]

\* r'(\d+)\s*(?:min|minute|minutes)' matched at position i: the digit run
\* that starts at i, optional whitespace, then a unit
duration_at(s, i) ==
    /\ i <= Len(s)
    /\ IsDigit(s[i])
    /\ LET e == RunEnd(s, i, DigitChars)
           w == RunEnd(s, e, WHITESPACE)
       IN  \E u \in 1..Len(duration_units) : OccursAt(duration_units[u], s, w)

NoDuration == [found |-> FALSE, value |-> 0]

\* the number matched leftmost among the positions `starts` of s
leftmost_duration(s, starts) ==
    IF starts = {} THEN NoDuration
    ELSE [found |-> TRUE,
          value |-> to_number(SubSeq(s, Min(starts),
                                     RunEnd(s, Min(starts), DigitChars) - 1))]

\* the two duration_patterns of parse_exercise_input, each under re.search
duration_pattern_plain(s) ==
    leftmost_duration(s, {i \in 1..Len(s) : duration_at(s, i)})

duration_pattern_for(s) ==
    leftmost_duration(s,
        {i \in 1..Len(s) :
            \E j \in 1..Len(s) :
                /\ OccursAt(W_for, s, j)
                /\ i = RunEnd(s, j + Len(W_for), WHITESPACE)
                /\ duration_at(s, i)})

\* the match of the first pattern that matches
first_match(first, second) == IF first.found THEN first ELSE second

NoExercise == [found |-> FALSE, activity |-> <<>>, duration |-> 0]

\* "if activity and duration" dropped: the activity with whatever duration
activity_alone(acts, duration) ==
    IF acts # {}
    THEN [found |-> TRUE, activity |-> activities[Min(acts)],
          duration |-> duration.value]
    ELSE NoExercise

\* "if activity and duration": acts are the activities found, in the order
\* of the vocabulary; a duration of 0 is falsy
activity_and_duration(acts, duration) ==
    IF acts # {} /\ duration.found /\ duration.value # 0
    THEN [found |-> TRUE, activity |-> activities[Min(acts)],
          duration |-> duration.value]
    ELSE NoExercise

search_exercise(message) ==
    activity_and_duration(
        {k \in 1..Len(activities) : Contains(activities[k], message)},
        first_match(duration_pattern_plain(message), duration_pattern_for(message)))

parse_exercise_input(user_message) == search_exercise(lower(user_message))

DEFAULT_ESTIMATE == [calories |-> 300, carbs |-> 40, protein |-> 15, fats |-> 10]

estimate_meal_calories(meal_name) ==
    LET meal == lower(meal_name)
        hits == {k \in 1..Len(estimates) : Contains(estimates[k].keyword, meal)}
    IN  IF hits = {} THEN DEFAULT_ESTIMATE
        ELSE LET e == estimates[Min(hits)]
             IN  [calories |-> e.calories, carbs |-> e.carbs,
                  protein |-> e.protein, fats |-> e.fats]

\* calories per minute when the activity has no entry in calorie_rates
DEFAULT_RATE == 5

estimate_exercise_calories(activity, duration) ==
    LET act  == lower(activity)
        hits == {k \in 1..Len(calorie_rates) : calorie_rates[k].activity = act}
        rate == IF hits = {} THEN DEFAULT_RATE ELSE calorie_rates[Min(hits)].rate
    IN  rate * duration

\* get_glucose_status with 130 left to the after-meal band
get_glucose_status_below_130(level) ==
    IF level < 70 THEN <<"Too Low - Hypoglycemia Risk", "red">>
    ELSE IF level < 80 THEN <<"Low - Monitor Closely", "orange">>
    ELSE IF level < 130 THEN <<"Normal (Before Meal Range)", "green">>
    ELSE IF level <= 180 THEN <<"Good (After Meal Range)", "green">>
    ELSE IF level <= 250 THEN <<"High - Take Action", "orange">>
    ELSE <<"Very High - Seek Medical Advice", "red">>

\* get_glucose_status: the status text and colour of a level
get_glucose_status(level) ==
    IF level < 70 THEN <<"Too Low - Hypoglycemia Risk", "red">>
    ELSE IF level < 80 THEN <<"Low - Monitor Closely", "orange">>
    ELSE IF level <= 130 THEN <<"Normal (Before Meal Range)", "green">>
    ELSE IF level <= 180 THEN <<"Good (After Meal Range)", "green">>
    ELSE IF level <= 250 THEN <<"High - Take Action", "orange">>
    ELSE <<"Very High - Seek Medical Advice", "red">>

(***************************************************************************)
(* Log Store (database/db_manager.py).  A table is the sequence of its     *)
(* rows in insertion (rowid) order; a timestamp counts hours, so that      *)
(* Date and Hour are the calendar date and the hour of day.                *)
(***************************************************************************)
Date(timestamp) == timestamp \div 24

Hour(timestamp) == timestamp % 24

\* INSERT INTO glucose_readings ...: the timestamp column defaults to the
\* time of the insert
add_glucose_reading(db, t, user_id, glucose_level) ==
    [db EXCEPT !.glucose_readings =
        Append(@, [user_id |-> user_id, timestamp |-> t,
                   glucose_level |-> glucose_level, is_demo_data |-> FALSE])]

\* add_meal running its INSERT twice
add_meal_twice(db, t, user_id, meal_name, meal_type, nutrition) ==
    LET row == [user_id |-> user_id, timestamp |-> t, meal_name |-> meal_name,
                meal_type |-> meal_type, calories |-> nutrition.calories,
                carbs |-> nutrition.carbs, protein |-> nutrition.protein,
                fats |-> nutrition.fats, is_demo_data |-> FALSE]
    IN  [db EXCEPT !.meals = @ \o <<row, row>>]

add_meal(db, t, user_id, meal_name, meal_type, nutrition) ==
    [db EXCEPT !.meals =
        Append(@, [user_id |-> user_id, timestamp |-> t, meal_name |-> meal_name,
                   meal_type |-> meal_type, calories |-> nutrition.calories,
                   carbs |-> nutrition.carbs, protein |-> nutrition.protein,
                   fats |-> nutrition.fats, is_demo_data |-> FALSE])]

\* add_exercise as an UPDATE of the newest row when there is one
add_exercise_over_newest(db, t, user_id, activity_type, duration, calories_burned, intensity) ==
    LET row == [user_id |-> user_id, timestamp |-> t,
                activity_type |-> activity_type, duration |-> duration,
                calories_burned |-> calories_burned, intensity |-> intensity,
                is_demo_data |-> FALSE]
    IN  IF db.exercise = <<>> THEN [db EXCEPT !.exercise = <<row>>]
        ELSE [db EXCEPT !.exercise[Len(db.exercise)] = row]

add_exercise(db, t, user_id, activity_type, duration, calories_burned, intensity) ==
    [db EXCEPT !.exercise =
        Append(@, [user_id |-> user_id, timestamp |-> t,
                   activity_type |-> activity_type, duration |-> duration,
                   calories_burned |-> calories_burned, intensity |-> intensity,
                   is_demo_data |-> FALSE])]

\* the rows of ids, newest first; rows of one timestamp keep rowid order
RECURSIVE order_by_timestamp_desc(_, _)
order_by_timestamp_desc(table, ids) ==
    IF ids = {} THEN <<>>
    ELSE LET newest == {i \in ids : \A j \in ids :
                            table[i].timestamp >= table[j].timestamp}
             i == Min(newest)
         IN  <<table[i]>> \o order_by_timestamp_desc(table, ids \ {i})

\* the recency query returning the rows in insertion order
select_in_rowid_order(table, user_id, limit) ==
    LET OfUser(row) == row.user_id = user_id
        rows == SelectSeq(table, OfUser)
    IN  IF Len(rows) <= limit THEN rows ELSE SubSeq(rows, 1, limit)

\* SELECT * FROM <table> WHERE user_id = ? ORDER BY timestamp DESC LIMIT ?
select_recent(table, user_id, limit) ==
    LET rows == order_by_timestamp_desc(table,
                    {i \in 1..Len(table) : table[i].user_id = user_id})
    IN  IF Len(rows) <= limit THEN rows ELSE SubSeq(rows, 1, limit)

get_glucose_readings(db, user_id, limit) ==
    select_recent(db.glucose_readings, user_id, limit)

get_meals(db, user_id, limit) == select_recent(db.meals, user_id, limit)

get_exercises(db, user_id, limit) == select_recent(db.exercise, user_id, limit)

RECURSIVE SumOf(_, _)
SumOf(f, S) ==
    IF S = {} THEN 0
    ELSE LET i == CHOOSE i \in S : TRUE IN f[i] + SumOf(f, S \ {i})

\* the statistics without the WHERE user_id = ? clause
get_glucose_stats_of_all(db, t, user_id, days) ==
    LET g    == db.glucose_readings
        rows == {i \in 1..Len(g) : g[i].timestamp >= t - days * 24}
        lvl  == [i \in rows |-> g[i].glucose_level]
    IN  [reading_count |-> Cardinality(rows),
         sum_glucose   |-> SumOf(lvl, rows),
         min_glucose   |-> IF rows = {} THEN 0 ELSE Min({lvl[i] : i \in rows}),
         max_glucose   |-> IF rows = {} THEN 0 ELSE Max({lvl[i] : i \in rows})]

\* AVG / MIN / MAX / COUNT over the user's readings of the last `days` days;
\* the average is kept exact, as the pair of its sum and count
get_glucose_stats(db, t, user_id, days) ==
    LET g    == db.glucose_readings
        rows == {i \in 1..Len(g) : /\ g[i].user_id = user_id
                                   /\ g[i].timestamp >= t - days * 24}
        lvl  == [i \in rows |-> g[i].glucose_level]
    IN  [reading_count |-> Cardinality(rows),
         sum_glucose   |-> SumOf(lvl, rows),
         min_glucose   |-> IF rows = {} THEN 0 ELSE Min({lvl[i] : i \in rows}),
         max_glucose   |-> IF rows = {} THEN 0 ELSE Max({lvl[i] : i \in rows})]

(***************************************************************************)
(* Collaborators.  A completion call returns a text or raises; so does a   *)
(* retrieval call.  An operation is handed the outcome of every call it    *)
(* may make and records the calls it did make in its trace.                *)
(***************************************************************************)
Completion(content) == [raised |-> FALSE, content |-> content, error |-> "none"]

Failure(error) == [raised |-> TRUE, content |-> <<>>, error |-> error]

\* a text is empty (falsy in Python) only when it is a str of no characters;
\* every templated text has characters
Truthy(text) == ~(text.kind = "text" /\ text.content = <<>>)

CompletionText(content) == [kind |-> "text", content |-> content]

\* the empty str "" that coordinate_analysis starts each insight with
EmptyText == [kind |-> "text", content |-> <<>>]

\* the slice readings[:5] etc. of the format_*_data helpers
FirstFive(rows) == IF Len(rows) <= 5 THEN rows ELSE SubSeq(rows, 1, 5)

format_glucose_data(readings) ==
    LET shown == FirstFive(readings)
    IN  [i \in 1..Len(shown) |-> <<shown[i].timestamp, shown[i].glucose_level>>]

format_meal_data(meal_rows) ==
    LET shown == FirstFive(meal_rows)
    IN  [i \in 1..Len(shown) |->
            <<shown[i].timestamp, shown[i].meal_name, shown[i].calories>>]

format_exercise_data(exercises) ==
    LET shown == FirstFive(exercises)
    IN  [i \in 1..Len(shown) |->
            <<shown[i].timestamp, shown[i].activity_type, shown[i].duration>>]

(***************************************************************************)
(* Diabetes Agent (agents/diabetes.py)                                     *)
(***************************************************************************)
\* the guidance with a reading of exactly 180 taken as elevated
glucose_feedback_below_180(glucose_value) ==
    IF glucose_value < 70 THEN "hypoglycemia"
    ELSE IF glucose_value < 80 THEN "lower end"
    ELSE IF glucose_value <= 130 THEN "before-meal range"
    ELSE IF glucose_value < 180 THEN "after-meal range"
    ELSE IF glucose_value <= 250 THEN "elevated"
    ELSE "very high"

\* the guidance sentence process_message appends to the acknowledgment
glucose_feedback(glucose_value) ==
    IF glucose_value < 70 THEN "hypoglycemia"
    ELSE IF glucose_value < 80 THEN "lower end"
    ELSE IF glucose_value <= 130 THEN "before-meal range"
    ELSE IF glucose_value <= 180 THEN "after-meal range"
    ELSE IF glucose_value <= 250 THEN "elevated"
    ELSE "very high"

\* the apology without the failure description
apology_without_detail(error) == [kind |-> "apology", error |-> "unknown"]

\* "I'm having trouble processing that right now. Error: {str(e)}"
ProcessingApology(error) == [kind |-> "apology", error |-> error]

\* "return response.content" or, when invoke raised, the apology
narrative_reply(llm) ==
    IF llm.raised THEN ProcessingApology(llm.error) ELSE CompletionText(llm.content)

\* the branch "if glucose_value": log the reading and acknowledge it
DiabetesAgent_log(db, t, user_id, glucose_value) ==
    [db       |-> add_glucose_reading(db, t, user_id, glucose_value),
     response |-> [kind     |-> "glucose_logged",
                   value    |-> glucose_value,
                   status   |-> get_glucose_status(glucose_value)[1],
                   guidance |-> glucose_feedback(glucose_value)],
     raised   |-> FALSE,
     trace    |-> << [call |-> "add_glucose_reading", agent |-> "diabetes"] >>]

\* "7-day average: ..." is added when the user has readings in the 7 days
seven_day_average(stats) ==
    IF stats.reading_count > 0 THEN <<stats.sum_glucose, stats.reading_count>> ELSE <<>>

\* the rest of process_message: the recent readings and the question go to
\* the completion service
DiabetesAgent_ask(db, t, user_id, user_message, llm) ==
    [db       |-> db,
     response |-> narrative_reply(llm),
     raised   |-> FALSE,
     trace    |-> << [call |-> "llm", agent |-> "diabetes",
                      prompt |-> [user_message |-> user_message,
                                  data |-> format_glucose_data(
                                               get_glucose_readings(db, user_id, 10)),
                                  average |-> seven_day_average(
                                               get_glucose_stats(db, t, user_id, 7))],
                      outcome |-> llm] >>]

\* glucose_value: what parse_glucose_input made of the message
DiabetesAgent_reply(db, t, user_id, user_message, llm, glucose_value) ==
    IF glucose_value.found /\ glucose_value.value # 0
    THEN DiabetesAgent_log(db, t, user_id, glucose_value.value)
    ELSE DiabetesAgent_ask(db, t, user_id, user_message, llm)

DiabetesAgent_process_message(db, t, user_id, user_message, llm) ==
    DiabetesAgent_reply(db, t, user_id, user_message, llm,
                        parse_glucose_input(user_message))

\* the summary reading an average of more than 130 up to 180 as one band
summary_interpretation_as_acknowledged(sum, count) ==
    IF sum < 80 * count THEN "low"
    ELSE IF sum <= 130 * count THEN "excellent"
    ELSE IF sum <= 180 * count THEN "good"
    ELSE "high"

\* get_glucose_summary, "Add interpretation based on ADA guidelines": the
\* wording chosen for the average sum / count
summary_interpretation(sum, count) ==
    IF sum < 80 * count THEN "low"
    ELSE IF sum <= 130 * count THEN "excellent"
    ELSE IF sum <= 154 * count THEN "good"
    ELSE IF sum <= 180 * count THEN "slightly elevated"
    ELSE "high"

\* stats: what get_glucose_stats returned
summarize_stats(stats, days) ==
    IF stats.reading_count = 0
    THEN [kind |-> "no_readings", days |-> days]
    ELSE [kind           |-> "glucose_summary",
          days           |-> days,
          average        |-> <<stats.sum_glucose, stats.reading_count>>,
          lowest         |-> stats.min_glucose,
          highest        |-> stats.max_glucose,
          count          |-> stats.reading_count,
          interpretation |-> summary_interpretation(stats.sum_glucose,
                                                    stats.reading_count),
          low_note       |-> stats.min_glucose < 70,
          high_note      |-> stats.max_glucose > 180]

get_glucose_summary(db, t, user_id, days) ==
    summarize_stats(get_glucose_stats(db, t, user_id, days), days)

(***************************************************************************)
(* Retrieval (rag/medical_knowledge.py): get_context returns a text that   *)
(* is never empty, or raises.                                              *)
(***************************************************************************)
Retrieved(context) == [raised |-> FALSE, context |-> context, error |-> "none"]

RetrievalFailure(error) == [raised |-> TRUE, context |-> "", error |-> error]

\* a narrative path that falls back on a stock reference text
rag_context_or_stock(has_rag, rag) ==
    IF has_rag /\ ~rag.raised THEN rag.context ELSE "no specific guidelines"

\* the rag_context a narrative path ends up with: "" when the agent holds no
\* retrieval capability (self.rag is None) or the call raises
rag_context_of(has_rag, rag) ==
    IF has_rag /\ ~rag.raised THEN rag.context ELSE ""

\* the retrieval call a narrative path makes, if any
rag_calls(agent, has_rag, rag) ==
    IF has_rag THEN << [call |-> "rag", agent |-> agent, outcome |-> rag] >> ELSE <<>>

(***************************************************************************)
(* Nutrition Agent (agents/nutrition.py)                                   *)
(***************************************************************************)
\* _determine_meal_type: the first of breakfast, lunch, dinner, snack that
\* occurs in the message, else None (the empty text here)
determine_meal_type(message) ==
    LET message_lower == lower(message)
        hits == {k \in 1..Len(meal_type_words) :
                    Contains(meal_type_words[k], message_lower)}
    IN  IF hits = {} THEN <<>> ELSE meal_type_words[Min(hits)]

\* the nutritional insight sentence of the meal acknowledgment
meal_insight(nutrition) ==
    IF nutrition.protein >= 20 THEN "great protein"
    ELSE IF nutrition.carbs > 60 THEN "high in carbs"
    ELSE IF nutrition.calories < 300 THEN "light meal"
    ELSE "well-balanced"

\* the branch "if meal_name": estimate, log and acknowledge the meal
NutritionAgent_log(db, t, user_id, meal_name, meal_type, nutrition) ==
    [db       |-> add_meal(db, t, user_id, meal_name, meal_type, nutrition),
     response |-> [kind      |-> "meal_logged",
                   meal      |-> meal_name,
                   meal_type |-> meal_type,
                   nutrition |-> nutrition,
                   insight   |-> meal_insight(nutrition)],
     raised   |-> FALSE,
     trace    |-> << [call |-> "add_meal", agent |-> "nutrition"] >>]

\* the rest of process_message: the recent meals, the retrieved context and
\* the question go to the completion service
NutritionAgent_ask(db, user_id, user_message, has_rag, rag, llm) ==
    [db       |-> db,
     response |-> narrative_reply(llm),
     raised   |-> FALSE,
     trace    |-> rag_calls("nutrition", has_rag, rag) \o
                  << [call |-> "llm", agent |-> "nutrition",
                      prompt |-> [user_message |-> user_message,
                                  data |-> format_meal_data(get_meals(db, user_id, 10)),
                                  rag_context |-> rag_context_of(has_rag, rag)],
                      outcome |-> llm] >>]

\* meal_name: what parse_meal_input made of the message; "if meal_name":
\* None and the empty text are both falsy
NutritionAgent_reply(db, t, user_id, user_message, has_rag, rag, llm, meal_name) ==
    IF meal_name.found /\ meal_name.meal # <<>>
    THEN NutritionAgent_log(db, t, user_id, meal_name.meal,
                            determine_meal_type(user_message),
                            estimate_meal_calories(meal_name.meal))
    ELSE NutritionAgent_ask(db, user_id, user_message, has_rag, rag, llm)

NutritionAgent_process_message(db, t, user_id, user_message, has_rag, rag, llm) ==
    NutritionAgent_reply(db, t, user_id, user_message, has_rag, rag, llm,
                         parse_meal_input(user_message))

(***************************************************************************)
(* Fitness Agent (agents/fitness.py)                                       *)
(***************************************************************************)
\* the motivational sentence of the exercise acknowledgment
workout_message(duration) ==
    IF duration >= 45 THEN "outstanding"
    ELSE IF duration >= 30 THEN "awesome"
    ELSE IF duration >= 15 THEN "nice work"
    ELSE "great start"

\* the branch "if exercise_data": estimate, log and acknowledge the workout
FitnessAgent_log(db, t, user_id, activity, duration, calories) ==
    [db       |-> add_exercise(db, t, user_id, activity, duration, calories, "moderate"),
     response |-> [kind     |-> "exercise_logged",
                   activity |-> activity,
                   duration |-> duration,
                   calories |-> calories,
                   message  |-> workout_message(duration)],
     raised   |-> FALSE,
     trace    |-> << [call |-> "add_exercise", agent |-> "fitness"] >>]

\* the rest of process_message: the recent exercises, the retrieved context
\* and the question go to the completion service
FitnessAgent_ask(db, user_id, user_message, has_rag, rag, llm) ==
    [db       |-> db,
     response |-> narrative_reply(llm),
     raised   |-> FALSE,
     trace    |-> rag_calls("fitness", has_rag, rag) \o
                  << [call |-> "llm", agent |-> "fitness",
                      prompt |-> [user_message |-> user_message,
                                  data |-> format_exercise_data(
                                               get_exercises(db, user_id, 10)),
                                  rag_context |-> rag_context_of(has_rag, rag)],
                      outcome |-> llm] >>]

\* exercise_data: what parse_exercise_input made of the message
FitnessAgent_reply(db, t, user_id, user_message, has_rag, rag, llm, exercise_data) ==
    IF exercise_data.found
    THEN FitnessAgent_log(db, t, user_id, exercise_data.activity,
                          exercise_data.duration,
                          estimate_exercise_calories(exercise_data.activity,
                                                     exercise_data.duration))
    ELSE FitnessAgent_ask(db, user_id, user_message, has_rag, rag, llm)

FitnessAgent_process_message(db, t, user_id, user_message, has_rag, rag, llm) ==
    FitnessAgent_reply(db, t, user_id, user_message, has_rag, rag, llm,
                       parse_exercise_input(user_message))

(***************************************************************************)
(* Pattern Analysis Agent (agents/pattern_analysis.py).  A mean is kept    *)
(* exact, as the pair of the sum and the number of its values; a mean of   *)
(* no value (pandas' NaN) has n = 0.                                       *)
(***************************************************************************)
Abs(a) == IF a < 0 THEN -a ELSE a

\* Series.mean() of the glucose levels of the rows of g selected by ids
glucose_mean(g, ids) ==
    [sum |-> SumOf([i \in ids |-> g[i].glucose_level], ids), n |-> Cardinality(ids)]

\* a - b for two means with values, as a numerator over MeanDen(a, b)
MeanDiff(a, b) == a.sum * b.n - b.sum * a.n

MeanDen(a, b) == a.n * b.n

\* pd.isna
IsNaN(m) == m.n = 0

\* "return None" of an analysis
NoPattern == [found |-> FALSE, kind |-> "none"]

\* the exercise-glucose analysis with its gate at "10 or more"
exercise_glucose_from_10(glucose_data, exercise_data) ==
    IF Len(exercise_data) < 3 THEN NoPattern
    ELSE
      LET exercise_dates == {Date(exercise_data[i].timestamp) :
                                i \in 1..Len(exercise_data)}
          on  == {i \in 1..Len(glucose_data) :
                     Date(glucose_data[i].timestamp) \in exercise_dates}
          off == (1..Len(glucose_data)) \ on
          exercise_days_glucose     == glucose_mean(glucose_data, on)
          non_exercise_days_glucose == glucose_mean(glucose_data, off)
          difference == MeanDiff(non_exercise_days_glucose, exercise_days_glucose)
          den        == MeanDen(non_exercise_days_glucose, exercise_days_glucose)
      IN  IF IsNaN(exercise_days_glucose) \/ IsNaN(non_exercise_days_glucose)
          THEN NoPattern
          ELSE IF Abs(difference) >= 10 * den
          THEN [found |-> TRUE, kind |-> "exercise_glucose",
                exercise_days     |-> exercise_days_glucose,
                non_exercise_days |-> non_exercise_days_glucose,
                direction |-> IF difference > 0 THEN "lower" ELSE "higher",
                strength  |-> IF Abs(difference) > 20 * den
                              THEN "Strong" ELSE "Moderate"]
          ELSE NoPattern

analyze_exercise_glucose_correlation(glucose_data, exercise_data) ==
    IF Len(exercise_data) < 3 THEN NoPattern
    ELSE
      LET exercise_dates == {Date(exercise_data[i].timestamp) :
                                i \in 1..Len(exercise_data)}
          on  == {i \in 1..Len(glucose_data) :
                     Date(glucose_data[i].timestamp) \in exercise_dates}
          off == (1..Len(glucose_data)) \ on
          exercise_days_glucose     == glucose_mean(glucose_data, on)
          non_exercise_days_glucose == glucose_mean(glucose_data, off)
          difference == MeanDiff(non_exercise_days_glucose, exercise_days_glucose)
          den        == MeanDen(non_exercise_days_glucose, exercise_days_glucose)
      IN  IF IsNaN(exercise_days_glucose) \/ IsNaN(non_exercise_days_glucose)
          THEN NoPattern
          ELSE IF Abs(difference) > 10 * den
          THEN [found |-> TRUE, kind |-> "exercise_glucose",
                exercise_days     |-> exercise_days_glucose,
                non_exercise_days |-> non_exercise_days_glucose,
                direction |-> IF difference > 0 THEN "lower" ELSE "higher",
                strength  |-> IF Abs(difference) > 20 * den
                              THEN "Strong" ELSE "Moderate"]
          ELSE NoPattern

\* a >= b for two means with values
MeanGeq(a, b) == a.sum * b.n >= b.sum * a.n

\* DataFrame.nlargest(k, 'post_glucose') / nsmallest: the rows of impacts at
\* ids in rank order, the earlier row first among equal values
RECURSIVE rank_impacts(_, _, _, _)
rank_impacts(impacts, ids, k, largest) ==
    IF k = 0 \/ ids = {} THEN <<>>
    ELSE LET best == {i \in ids : \A j \in ids :
                         IF largest
                         THEN MeanGeq(impacts[i].post_glucose, impacts[j].post_glucose)
                         ELSE MeanGeq(impacts[j].post_glucose, impacts[i].post_glucose)}
             i == Min(best)
         IN  <<impacts[i]>> \o rank_impacts(impacts, ids \ {i}, k - 1, largest)

\* the mean of the post_glucose column of the ranked rows (one or two rows)
mean_of_means(rows) ==
    IF Len(rows) = 1 THEN rows[1].post_glucose
    ELSE LET a == rows[1].post_glucose
             b == rows[2].post_glucose
         IN  [sum |-> a.sum * b.n + b.sum * a.n, n |-> 2 * a.n * b.n]

\* the meal-glucose analysis with readings at one hour after the meal counted
meal_glucose_from_one_hour(glucose_data, meal_data) ==
    IF Len(meal_data) < 5 THEN NoPattern
    ELSE
      LET post(meal) == {i \in 1..Len(glucose_data) :
                            /\ glucose_data[i].timestamp >= meal.timestamp + 1
                            /\ glucose_data[i].timestamp < meal.timestamp + 3}
          impact(k)  == [meal  |-> meal_data[k].meal_name,
                         carbs |-> meal_data[k].carbs,
                         post_glucose |-> glucose_mean(glucose_data, post(meal_data[k]))]
          HasPost(row) == ~IsNaN(row.post_glucose)
          meal_impacts == SelectSeq([k \in 1..Len(meal_data) |-> impact(k)], HasPost)
      IN  IF Len(meal_impacts) < 3 THEN NoPattern
          ELSE LET all_rows    == 1..Len(meal_impacts)
                   high_impact == rank_impacts(meal_impacts, all_rows, 2, TRUE)
                   low_impact  == rank_impacts(meal_impacts, all_rows, 2, FALSE)
               IN  [found |-> TRUE, kind |-> "meal_glucose",
                    high_meals |-> [i \in 1..Len(high_impact) |-> high_impact[i].meal],
                    high_avg   |-> mean_of_means(high_impact),
                    low_meals  |-> [i \in 1..Len(low_impact) |-> low_impact[i].meal],
                    low_avg    |-> mean_of_means(low_impact),
                    recommend  |-> low_impact[1].meal]

analyze_meal_glucose_correlation(glucose_data, meal_data) ==
    IF Len(meal_data) < 5 THEN NoPattern
    ELSE
      LET post(meal) == {i \in 1..Len(glucose_data) :
                            /\ glucose_data[i].timestamp > meal.timestamp + 1
                            /\ glucose_data[i].timestamp < meal.timestamp + 3}
          impact(k)  == [meal  |-> meal_data[k].meal_name,
                         carbs |-> meal_data[k].carbs,
                         post_glucose |-> glucose_mean(glucose_data, post(meal_data[k]))]
          HasPost(row) == ~IsNaN(row.post_glucose)
          meal_impacts == SelectSeq([k \in 1..Len(meal_data) |-> impact(k)], HasPost)
      IN  IF Len(meal_impacts) < 3 THEN NoPattern
          ELSE LET all_rows    == 1..Len(meal_impacts)
                   high_impact == rank_impacts(meal_impacts, all_rows, 2, TRUE)
                   low_impact  == rank_impacts(meal_impacts, all_rows, 2, FALSE)
               IN  [found |-> TRUE, kind |-> "meal_glucose",
                    high_meals |-> [i \in 1..Len(high_impact) |-> high_impact[i].meal],
                    high_avg   |-> mean_of_means(high_impact),
                    low_meals  |-> [i \in 1..Len(low_impact) |-> low_impact[i].meal],
                    low_avg    |-> mean_of_means(low_impact),
                    recommend  |-> low_impact[1].meal]

\* Series.between(lo, hi) on the hour of the rows
hour_between(rows, lo, hi) ==
    {i \in 1..Len(rows) : lo <= Hour(rows[i].timestamp) /\ Hour(rows[i].timestamp) <= hi}

\* the time-of-day analysis with its gate at "20 or more"
time_patterns_from_20(glucose_data) ==
    IF Len(glucose_data) < 10 THEN NoPattern
    ELSE
      LET morning   == glucose_mean(glucose_data, hour_between(glucose_data, 6, 11))
          afternoon == glucose_mean(glucose_data, hour_between(glucose_data, 12, 17))
          evening   == glucose_mean(glucose_data, hour_between(glucose_data, 18, 23))
          HasValue(entry) == ~IsNaN(entry.mean)
          times == SelectSeq(<< [name |-> "Morning",   mean |-> morning],
                                [name |-> "Afternoon", mean |-> afternoon],
                                [name |-> "Evening",   mean |-> evening] >>, HasValue)
      IN  IF times = <<>> THEN NoPattern
          ELSE
            LET \* max(times, key=times.get) and min: the first entry among equals
                highest_time == Min({i \in 1..Len(times) : \A j \in 1..Len(times) :
                                        MeanGeq(times[i].mean, times[j].mean)})
                lowest_time  == Min({i \in 1..Len(times) : \A j \in 1..Len(times) :
                                        MeanGeq(times[j].mean, times[i].mean)})
                hi == times[highest_time]
                lo == times[lowest_time]
            IN  IF MeanDiff(hi.mean, lo.mean) >= 20 * MeanDen(hi.mean, lo.mean)
                THEN [found |-> TRUE, kind |-> "time_of_day",
                      highest |-> hi, lowest |-> lo]
                ELSE NoPattern

analyze_time_patterns(glucose_data) ==
    IF Len(glucose_data) < 10 THEN NoPattern
    ELSE
      LET morning   == glucose_mean(glucose_data, hour_between(glucose_data, 6, 11))
          afternoon == glucose_mean(glucose_data, hour_between(glucose_data, 12, 17))
          evening   == glucose_mean(glucose_data, hour_between(glucose_data, 18, 23))
          HasValue(entry) == ~IsNaN(entry.mean)
          times == SelectSeq(<< [name |-> "Morning",   mean |-> morning],
                                [name |-> "Afternoon", mean |-> afternoon],
                                [name |-> "Evening",   mean |-> evening] >>, HasValue)
      IN  IF times = <<>> THEN NoPattern
          ELSE
            LET \* max(times, key=times.get) and min: the first entry among equals
                highest_time == Min({i \in 1..Len(times) : \A j \in 1..Len(times) :
                                        MeanGeq(times[i].mean, times[j].mean)})
                lowest_time  == Min({i \in 1..Len(times) : \A j \in 1..Len(times) :
                                        MeanGeq(times[j].mean, times[i].mean)})
                hi == times[highest_time]
                lo == times[lowest_time]
            IN  IF MeanDiff(hi.mean, lo.mean) > 20 * MeanDen(hi.mean, lo.mean)
                THEN [found |-> TRUE, kind |-> "time_of_day",
                      highest |-> hi, lowest |-> lo]
                ELSE NoPattern

\* the exercise-timing analysis with its gate at "15 or more"
exercise_timing_from_15(glucose_data, exercise_data) ==
    IF Len(exercise_data) < 3 THEN NoPattern
    ELSE
      LET morning_exercises == hour_between(exercise_data, 5, 11)
          evening_exercises == hour_between(exercise_data, 17, 21)
          dates(ids) == {Date(exercise_data[i].timestamp) : i \in ids}
          on(ids)    == {i \in 1..Len(glucose_data) :
                            Date(glucose_data[i].timestamp) \in dates(ids)}
          morning_glucose == glucose_mean(glucose_data, on(morning_exercises))
          evening_glucose == glucose_mean(glucose_data, on(evening_exercises))
          \* "if morning_glucose and evening_glucose and abs(..) > 15": None
          \* and 0.0 are falsy; NaN is truthy but no comparison with it holds
          usable(ids, m) == ids # {} /\ ~IsNaN(m) /\ m.sum # 0
      IN  IF /\ usable(morning_exercises, morning_glucose)
             /\ usable(evening_exercises, evening_glucose)
             /\ Abs(MeanDiff(morning_glucose, evening_glucose))
                  >= 15 * MeanDen(morning_glucose, evening_glucose)
          THEN LET morning_better == MeanDiff(morning_glucose, evening_glucose) < 0
               IN  [found |-> TRUE, kind |-> "exercise_timing",
                    better_time |-> IF morning_better THEN "morning" ELSE "evening",
                    better_avg  |-> IF morning_better THEN morning_glucose
                                    ELSE evening_glucose,
                    worse_avg   |-> IF morning_better THEN evening_glucose
                                    ELSE morning_glucose]
          ELSE NoPattern

analyze_exercise_timing(glucose_data, exercise_data) ==
    IF Len(exercise_data) < 3 THEN NoPattern
    ELSE
      LET morning_exercises == hour_between(exercise_data, 5, 11)
          evening_exercises == hour_between(exercise_data, 17, 21)
          dates(ids) == {Date(exercise_data[i].timestamp) : i \in ids}
          on(ids)    == {i \in 1..Len(glucose_data) :
                            Date(glucose_data[i].timestamp) \in dates(ids)}
          morning_glucose == glucose_mean(glucose_data, on(morning_exercises))
          evening_glucose == glucose_mean(glucose_data, on(evening_exercises))
          \* "if morning_glucose and evening_glucose and abs(..) > 15": None
          \* and 0.0 are falsy; NaN is truthy but no comparison with it holds
          usable(ids, m) == ids # {} /\ ~IsNaN(m) /\ m.sum # 0
      IN  IF /\ usable(morning_exercises, morning_glucose)
             /\ usable(evening_exercises, evening_glucose)
             /\ Abs(MeanDiff(morning_glucose, evening_glucose))
                  > 15 * MeanDen(morning_glucose, evening_glucose)
          THEN LET morning_better == MeanDiff(morning_glucose, evening_glucose) < 0
               IN  [found |-> TRUE, kind |-> "exercise_timing",
                    better_time |-> IF morning_better THEN "morning" ELSE "evening",
                    better_avg  |-> IF morning_better THEN morning_glucose
                                    ELSE evening_glucose,
                    worse_avg   |-> IF morning_better THEN evening_glucose
                                    ELSE morning_glucose]
          ELSE NoPattern

\* the patterns list of analyze_patterns: the findings that are not None,
\* in the order the analyses run
find_patterns(glucose_data, meal_data, exercise_data) ==
    LET Found(p) == p.found
    IN  SelectSeq(<< analyze_exercise_glucose_correlation(glucose_data, exercise_data),
                     analyze_meal_glucose_correlation(glucose_data, meal_data),
                     analyze_time_patterns(glucose_data),
                     analyze_exercise_timing(glucose_data, exercise_data) >>, Found)

\* An exception that leaves the operation
Raised(error, trace) ==
    [response |-> [kind |-> "exception", error |-> error],
     raised |-> TRUE, trace |-> trace]

Returned(response, trace) ==
    [response |-> response, raised |-> FALSE, trace |-> trace]

\* the completion call of Pattern Analysis: self.llm.invoke(messages) stands
\* outside any try block, so what it raises leaves the operation
invoke_unguarded(agent, prompt, llm, trace) ==
    IF llm.raised
    THEN Raised(llm.error,
                trace \o << [call |-> "llm", agent |-> agent, prompt |-> prompt,
                             outcome |-> llm] >>)
    ELSE Returned(CompletionText(llm.content),
                  trace \o << [call |-> "llm", agent |-> agent, prompt |-> prompt,
                               outcome |-> llm] >>)

\* analyze_patterns asking the completion service even without a finding
summarize_without_gate(glucose_data, patterns, llm) ==
    IF glucose_data = <<>>
    THEN Returned([kind |-> "not_enough_data"], <<>>)
    ELSE invoke_unguarded("pattern", [patterns |-> patterns], llm, <<>>)

\* glucose_data and patterns as analyze_patterns has computed them
summarize_patterns(glucose_data, patterns, llm) ==
    IF glucose_data = <<>>
    THEN Returned([kind |-> "not_enough_data"], <<>>)
    ELSE IF patterns = <<>>
    THEN Returned([kind |-> "need_more_data"], <<>>)
    ELSE invoke_unguarded("pattern", [patterns |-> patterns], llm, <<>>)

analyze_patterns(db, user_id, llm) ==
    summarize_patterns(get_glucose_readings(db, user_id, 100),
                       find_patterns(get_glucose_readings(db, user_id, 100),
                                     get_meals(db, user_id, 100),
                                     get_exercises(db, user_id, 100)),
                       llm)

\* analysis: what self.analyze_patterns(user_id) came to
answer_from_patterns(analysis, question, llm) ==
    IF analysis.raised THEN analysis
    ELSE invoke_unguarded("insight",
                          [patterns_text |-> analysis.response, question |-> question],
                          llm, analysis.trace)

get_specific_insight(db, user_id, question, llm_patterns, llm) ==
    answer_from_patterns(analyze_patterns(db, user_id, llm_patterns), question, llm)

(***************************************************************************)
(* Router Agent (agents/router.py)                                         *)
(***************************************************************************)
valid_routes ==
    <<
      <<"D", "I", "A", "B", "E", "T", "E", "S", "_", "A", "G", "E", "N", "T">>,
      <<"F", "I", "T", "N", "E", "S", "S", "_", "A", "G", "E", "N", "T">>,
      <<"N", "U", "T", "R", "I", "T", "I", "O", "N", "_", "A", "G", "E", "N", "T">>,
      <<"G", "E", "N", "E", "R", "A", "L">> >>

W_GENERAL ==
    <<"G", "E", "N", "E", "R", "A", "L">>

\* route returning the normalised completion text without validating it
route_unvalidated(user_message, llm) ==
    LET call == [call |-> "llm", agent |-> "router",
                 prompt |-> [user_message |-> user_message], outcome |-> llm]
    IN  IF llm.raised THEN [response |-> W_GENERAL, raised |-> FALSE, trace |-> <<call>>]
        ELSE [response |-> upper(strip(llm.content)), raised |-> FALSE,
              trace |-> <<call>>]

route(user_message, llm) ==
    LET call == [call |-> "llm", agent |-> "router",
                 prompt |-> [user_message |-> user_message], outcome |-> llm]
        chosen == upper(strip(llm.content))
    IN  IF llm.raised THEN Returned(W_GENERAL, <<call>>)
        ELSE IF \E k \in 1..Len(valid_routes) : valid_routes[k] = chosen
        THEN Returned(chosen, <<call>>)
        ELSE Returned(W_GENERAL, <<call>>)

(***************************************************************************)
(* Insights Coordinator Agent (agents/insights_coordinator.py)             *)
(***************************************************************************)
diabetes_trigger_words ==
    <<
      <<"g", "l", "u", "c", "o", "s", "e">>,
      <<"s", "u", "g", "a", "r">>,
      <<"b", "l", "o", "o", "d">>,
      <<"d", "i", "a", "b", "e", "t", "e", "s">>,
      <<"h", "i", "g", "h">>,
      <<"l", "o", "w">> >>

nutrition_trigger_words ==
    <<
      <<"f", "o", "o", "d">>,
      <<"m", "e", "a", "l">>,
      <<"e", "a", "t">>,
      <<"d", "i", "e", "t">>,
      <<"n", "u", "t", "r", "i", "t", "i", "o", "n">>,
      <<"c", "a", "r", "b">> >>

fitness_trigger_words ==
    <<
      <<"e", "x", "e", "r", "c", "i", "s", "e">>,
      <<"w", "o", "r", "k", "o", "u", "t">>,
      <<"a", "c", "t", "i", "v", "i", "t", "y">>,
      <<"t", "i", "r", "e", "d">>,
      <<"e", "n", "e", "r", "g", "y">> >>

glucose_domain_words ==
    <<
      <<"g", "l", "u", "c", "o", "s", "e">>,
      <<"s", "u", "g", "a", "r">>,
      <<"d", "i", "a", "b", "e", "t", "e", "s">> >>

food_domain_words ==
    <<
      <<"f", "o", "o", "d">>,
      <<"m", "e", "a", "l">>,
      <<"e", "a", "t">>,
      <<"n", "u", "t", "r", "i", "t", "i", "o", "n">> >>

exercise_domain_words ==
    <<
      <<"e", "x", "e", "r", "c", "i", "s", "e">>,
      <<"w", "o", "r", "k", "o", "u", "t">>,
      <<"a", "c", "t", "i", "v", "i", "t", "y">> >>

optimize_words ==
    <<
      <<"i", "m", "p", "r", "o", "v", "e">>,
      <<"b", "e", "t", "t", "e", "r">>,
      <<"o", "p", "t", "i", "m", "i", "z", "e">>,
      <<"r", "e", "d", "u", "c", "e">>,
      <<"i", "n", "c", "r", "e", "a", "s", "e">>,
      <<"h", "o", "w", " ", "c", "a", "n", " ", "i">> >>

W_why ==
    <<"w", "h", "y">>

\* the Fitness Agent triggered by the words should_coordinate counts
triggers_fitness_as_counted(question) == any_in(exercise_domain_words, lower(question))

\* the keyword tests of coordinate_analysis, one per Domain Agent
triggers_diabetes(question) == any_in(diabetes_trigger_words, lower(question))

triggers_nutrition(question) == any_in(nutrition_trigger_words, lower(question))

triggers_fitness(question) == any_in(fitness_trigger_words, lower(question))

\* "{insights if insights else 'Not consulted for this query'}"
NotConsulted == [kind |-> "not_consulted"]

section(insights) == IF Truthy(insights) THEN insights ELSE NotConsulted

\* a skipped agent: its insight stays "" and the store is as it was
not_invoked(db) == [db |-> db, response |-> EmptyText, raised |-> FALSE, trace |-> <<>>]

\* an agent's process_message, called by the coordinator, with what it returned
invoked(agent, result) ==
    [result EXCEPT !.trace = << [call |-> "process_message", agent |-> agent,
                                 returned |-> result.response] >> \o @]

\* the synthesis prompt without the Pattern Analysis findings
prompt_without_patterns(question, pattern_insights, diabetes_insights, nutrition_insights, fitness_insights) ==
    [question           |-> question,
     pattern_insights   |-> NotConsulted,
     diabetes_insights  |-> section(diabetes_insights),
     nutrition_insights |-> section(nutrition_insights),
     fitness_insights   |-> section(fitness_insights)]

\* the f-string synthesis_prompt: the question and the four findings
build_synthesis_prompt(question, pattern_insights, diabetes_insights, nutrition_insights, fitness_insights) ==
    [question           |-> question,
     pattern_insights   |-> pattern_insights,
     diabetes_insights  |-> section(diabetes_insights),
     nutrition_insights |-> section(nutrition_insights),
     fitness_insights   |-> section(fitness_insights)]

\* the Diabetes Agent consulted whatever the question holds
consult_diabetes_always(db, t, user_id, question, llm) ==
    invoked("diabetes", DiabetesAgent_process_message(db, t, user_id, question, llm))

\* Step 2 of coordinate_analysis, one "if any(word in question_lower ...)"
\* per Domain Agent; db is the store as the agents invoked before left it
consult_diabetes(db, t, user_id, question, llm) ==
    IF triggers_diabetes(question)
    THEN invoked("diabetes", DiabetesAgent_process_message(db, t, user_id, question, llm))
    ELSE not_invoked(db)

consult_nutrition(db, t, user_id, question, has_rag, rag, llm) ==
    IF triggers_nutrition(question)
    THEN invoked("nutrition",
                 NutritionAgent_process_message(db, t, user_id, question, has_rag, rag, llm))
    ELSE not_invoked(db)

consult_fitness(db, t, user_id, question, has_rag, rag, llm) ==
    IF triggers_fitness(question)
    THEN invoked("fitness",
                 FitnessAgent_process_message(db, t, user_id, question, has_rag, rag, llm))
    ELSE not_invoked(db)

\* the synthesis returning the completion's text as it is
synthesize_without_footer(prompt, llm, db, trace) ==
    [db       |-> db,
     response |-> IF llm.raised
                  THEN [kind |-> "coordination_apology", error |-> llm.error]
                  ELSE [kind |-> "coordinated", content |-> llm.content, footer |-> FALSE],
     raised   |-> FALSE,
     trace    |-> trace \o << [call |-> "llm", agent |-> "coordinator",
                               prompt |-> prompt, outcome |-> llm] >>]

\* Step 3: the synthesis call, inside try / except
synthesize(prompt, llm, db, trace) ==
    [db       |-> db,
     response |-> IF llm.raised
                  THEN [kind |-> "coordination_apology", error |-> llm.error]
                  ELSE [kind |-> "coordinated", content |-> llm.content, footer |-> TRUE],
     raised   |-> FALSE,
     trace    |-> trace \o << [call |-> "llm", agent |-> "coordinator",
                               prompt |-> prompt, outcome |-> llm] >>]

\* Step 1 is over: analyze_patterns is called before the try block, so what
\* it raises leaves coordinate_analysis, and no agent is consulted
patterns_done(pattern, db) ==
    [db       |-> db,
     response |-> pattern.response,
     raised   |-> pattern.raised,
     trace    |-> << [call |-> "analyze_patterns", agent |-> "pattern",
                      raised |-> pattern.raised, returned |-> pattern.response] >>
                  \o pattern.trace]

\* outs: the outcome of each collaborator call coordinate_analysis may lead to
fitness_done(started, diabetes, nutrition, fitness, question, outs) ==
    synthesize(build_synthesis_prompt(question, started.response, diabetes.response,
                                      nutrition.response, fitness.response),
               outs.synthesis, fitness.db,
               started.trace \o diabetes.trace \o nutrition.trace \o fitness.trace)

nutrition_done(started, diabetes, nutrition, t, user_id, question, fitness_has_rag, outs) ==
    fitness_done(started, diabetes, nutrition,
                 consult_fitness(nutrition.db, t, user_id, question, fitness_has_rag,
                                 outs.fitness_rag, outs.fitness),
                 question, outs)

diabetes_done(started, diabetes, t, user_id, question, nutrition_has_rag, fitness_has_rag, outs) ==
    nutrition_done(started, diabetes,
                   consult_nutrition(diabetes.db, t, user_id, question, nutrition_has_rag,
                                     outs.nutrition_rag, outs.nutrition),
                   t, user_id, question, fitness_has_rag, outs)

consult_agents(started, t, user_id, question, nutrition_has_rag, fitness_has_rag, outs) ==
    IF started.raised THEN started
    ELSE diabetes_done(started,
                       consult_diabetes(started.db, t, user_id, question, outs.diabetes),
                       t, user_id, question, nutrition_has_rag, fitness_has_rag, outs)

coordinate_analysis(db, t, user_id, question, nutrition_has_rag, fitness_has_rag, outs) ==
    consult_agents(patterns_done(analyze_patterns(db, user_id, outs.pattern), db),
                   t, user_id, question, nutrition_has_rag, fitness_has_rag, outs)

\* the number of domain keyword sets with a keyword in the question
domain_count(question_lower) ==
    (IF any_in(glucose_domain_words, question_lower) THEN 1 ELSE 0)
    + (IF any_in(food_domain_words, question_lower) THEN 1 ELSE 0)
    + (IF any_in(exercise_domain_words, question_lower) THEN 1 ELSE 0)

\* should_coordinate satisfied by a single domain
should_coordinate_single_domain(question) ==
    LET question_lower == lower(question)
    IN  IF startswith(question_lower, W_why) THEN TRUE
        ELSE IF domain_count(question_lower) >= 1 THEN TRUE
        ELSE IF any_in(optimize_words, question_lower) THEN TRUE
        ELSE FALSE

should_coordinate(question) ==
    LET question_lower == lower(question)
    IN  IF startswith(question_lower, W_why) THEN TRUE
        ELSE IF domain_count(question_lower) >= 2 THEN TRUE
        ELSE IF any_in(optimize_words, question_lower) THEN TRUE
        ELSE FALSE

(***************************************************************************)
(* Inputs: the users, the messages and the collaborator outcomes the       *)
(* operations are run on.                                                  *)
(***************************************************************************)
Users == {1, 2}

M_LogGlucose ==
    <<"L", "o", "g", " ", "g", "l", "u", "c", "o", "s", "e", ":", " ", "1", "2", "0">>

M_AteChicken ==
    <<"I", " ", "a", "t", "e", " ", "g", "r", "i", "l", "l", "e", "d", " ", "c", "h", "i", "c", "k", "e", "n", ".">>

M_AteLunch ==
    <<"I", " ", "a", "t", "e", " ", "l", "u", "n", "c", "h">>

M_Ran30 ==
    <<"I", " ", "r", "a", "n", " ", "f", "o", "r", " ", "3", "0", " ", "m", "i", "n", "u", "t", "e", "s">>

M_Walk30 ==
    <<"3", "0", " ", "m", "i", "n", " ", "w", "a", "l", "k">>

M_Minutes30 ==
    <<"3", "0", " ", "m", "i", "n", "u", "t", "e", "s">>

M_IRan ==
    <<"I", " ", "r", "a", "n">>

M_WhyHigh ==
    <<"W", "h", "y", " ", "i", "s", " ", "m", "y", " ", "g", "l", "u", "c", "o", "s", "e", " ", "h", "i", "g", "h", "?">>

M_Improve ==
    <<"H", "o", "w", " ", "c", "a", "n", " ", "I", " ", "i", "m", "p", "r", "o", "v", "e", " ", "m", "y", " ", "e", "x", "e", "r", "c", "i", "s", "e", " ", "a", "n", "d", " ", "d", "i", "e", "t", "?">>

M_WhyTired ==
    <<"w", "h", "y", " ", "a", "m", " ", "I", " ", "t", "i", "r", "e", "d">>

M_Hello ==
    <<"H", "e", "l", "l", "o">>

M_AteNothing ==
    <<"I", " ", "a", "t", "e", " ", ".">>

M_Weather ==
    <<"I", "s", " ", "t", "h", "e", " ", "w", "e", "a", "t", "h", "e", "r", " ", "n", "i", "c", "e", "?">>

M_AllLog ==
    <<"g", "l", "u", "c", "o", "s", "e", " ", "1", "5", "0", " ", "m", "g", "/", "d", "L", ",", " ", "I", " ", "h", "a", "d", " ", "a", " ", "m", "e", "a", "l", ",", " ", "2", "0", " ", "m", "i", "n", " ", "w", "o", "r", "k", "o", "u", "t">>

M_AllAsk ==
    <<"D", "o", "e", "s", " ", "f", "o", "o", "d", " ", "a", "n", "d", " ", "e", "x", "e", "r", "c", "i", "s", "e", " ", "a", "f", "f", "e", "c", "t", " ", "m", "y", " ", "s", "u", "g", "a", "r", "?">>

M_MealGlucose ==
    <<"W", "h", "a", "t", " ", "m", "e", "a", "l", " ", "k", "e", "e", "p", "s", " ", "m", "y", " ", "g", "l", "u", "c", "o", "s", "e", " ", "s", "t", "e", "a", "d", "y", "?">>

M_TellWhy ==
    <<"T", "e", "l", "l", " ", "m", "e", " ", "w", "h", "y">>

M_WHY ==
    <<"W", "H", "Y", "?">>

Messages ==
    { M_LogGlucose,
      M_AteChicken,
      M_AteLunch,
      M_Ran30,
      M_Walk30,
      M_Minutes30,
      M_IRan,
      M_WhyHigh,
      M_Improve,
      M_WhyTired,
      M_Hello,
      M_AteNothing,
      M_Weather,
      M_AllLog,
      M_AllAsk,
      M_MealGlucose,
      M_TellWhy,
      M_WHY }

\* str(n) of a natural number
RECURSIVE decimal(_)
decimal(n) ==
    IF n < 10 THEN <<DIGITS[n + 1]>>
    ELSE decimal(n \div 10) \o <<DIGITS[(n % 10) + 1]>>

\* the largest glucose level tried
MaxLevel == 420

Levels == 0..MaxLevel

\* "Log glucose: <level>"
reading_message(level) == SubSeq(M_LogGlucose, 1, 13) \o decimal(level)

\* stated values of more than three digits
LongLevels == {1200, 4000, 4500}

StatedLevels == Levels \cup LongLevels

ReadingMessages == {reading_message(level) : level \in Levels}

StatedMessages == {reading_message(level) : level \in StatedLevels}

T_Diabetes ==
    <<"D", "I", "A", "B", "E", "T", "E", "S", "_", "A", "G", "E", "N", "T">>

T_FitnessPadded ==
    <<" ", "f", "i", "t", "n", "e", "s", "s", "_", "a", "g", "e", "n", "t", "\n">>

T_NutritionMixed ==
    <<"N", "u", "t", "r", "i", "t", "i", "o", "n", "_", "A", "g", "e", "n", "t">>

T_General ==
    <<"G", "E", "N", "E", "R", "A", "L">>

T_Partial ==
    <<"D", "I", "A", "B", "E", "T", "E", "S">>

T_Sentence ==
    <<"I", " ", "t", "h", "i", "n", "k", " ", "F", "I", "T", "N", "E", "S", "S", "_", "A", "G", "E", "N", "T">>

T_Advice ==
    <<"o", "k">>

W_chicken_salad ==
    <<"c", "h", "i", "c", "k", "e", "n", " ", "s", "a", "l", "a", "d">>

W_oatmeal ==
    <<"o", "a", "t", "m", "e", "a", "l">>

W_lunch ==
    <<"l", "u", "n", "c", "h">>

W_run ==
    <<"r", "u", "n">>

W_yoga ==
    <<"y", "o", "g", "a">>

W_walk ==
    <<"w", "a", "l", "k">>

\* what the completion service may do on the router's call
RouterOutcomes ==
    { Failure("timeout"), Completion(<<>>), Completion(T_Diabetes),
      Completion(T_FitnessPadded), Completion(T_NutritionMixed),
      Completion(T_General), Completion(T_Partial), Completion(T_Sentence) }

\* ... on a Domain Agent's call: a failure, an empty text, a text
AgentOutcomes == { Failure("timeout"), Completion(<<>>), Completion(T_Advice) }

\* ... on the calls of Pattern Analysis and of the synthesis
AnalysisOutcomes == { Failure("rate limit"), Completion(T_Advice) }

\* what the retrieval service may do on get_context
RagOutcomes == { RetrievalFailure("chroma"), Retrieved("guidelines") }

\* the outcome handed to an operation for a call it cannot reach
NotCalled == Failure("not called")

RagNotCalled == RetrievalFailure("not called")

\* the calls of an agent that a trace holds
CallsOf(trace, kind, agent) ==
    {i \in 1..Len(trace) : trace[i].call = kind /\ trace[i].agent = agent}

\* the outcomes to try for a call: those of S when the operation, run with
\* every call succeeding, makes the call, and none to choose otherwise
OutcomesFor(trace, kind, agent, S, unused) ==
    IF CallsOf(trace, kind, agent) # {} THEN S ELSE {unused}

(***************************************************************************)
(* Stored data the program may start with (the store is a database file    *)
(* that outlives the process).                                             *)
(***************************************************************************)
At(day, hour) == day * 24 + hour

G(user_id, timestamp, glucose_level) ==
    [user_id |-> user_id, timestamp |-> timestamp, glucose_level |-> glucose_level,
     is_demo_data |-> FALSE]

M(user_id, timestamp, meal_name, meal_type, calories, carbs, protein, fats) ==
    [user_id |-> user_id, timestamp |-> timestamp, meal_name |-> meal_name,
     meal_type |-> meal_type, calories |-> calories, carbs |-> carbs,
     protein |-> protein, fats |-> fats, is_demo_data |-> FALSE]

E(user_id, timestamp, activity_type, duration, calories_burned) ==
    [user_id |-> user_id, timestamp |-> timestamp, activity_type |-> activity_type,
     duration |-> duration, calories_burned |-> calories_burned,
     intensity |-> "moderate", is_demo_data |-> FALSE]

EmptyStore == [glucose_readings |-> <<>>, meals |-> <<>>, exercise |-> <<>>]

\* user 1 exercised on days 7, 8 and 9 and reads 115 on average on those
\* days against 140 on the others; user 2 has a single reading
ActiveStore ==
    [glucose_readings |-> << G(1, At(1, 8), 140), G(1, At(6, 8), 140),
                             G(1, At(7, 9), 110), G(2, At(9, 8), 95),
                             G(1, At(8, 20), 120) >>,
     meals    |-> << M(1, At(8, 12), W_chicken_salad, W_lunch, 200, 15, 10, 10),
                     M(2, At(9, 7), W_oatmeal, <<>>, 300, 50, 10, 6) >>,
     exercise |-> << E(1, At(7, 7), W_run, 30, 300), E(1, At(8, 18), W_yoga, 40, 120),
                     E(1, At(9, 18), W_walk, 20, 80) >>]

SeedStores == {EmptyStore, ActiveStore}

(***************************************************************************)
(* The dispatcher (app.py, smart_response)                                 *)
(***************************************************************************)
\* the keywords of "Check if asking for visualization"
visual_words ==
    << <<"s", "h", "o", "w">>,
       <<"c", "h", "a", "r", "t">>,
       <<"g", "r", "a", "p", "h">>,
       <<"v", "i", "s", "u", "a", "l", "i", "z", "e">>,
       <<"s", "e", "e", " ", "m", "y">> >>

glucose_chart_words ==
    << <<"g", "l", "u", "c", "o", "s", "e">>,
       <<"s", "u", "g", "a", "r">>,
       <<"d", "i", "a", "b", "e", "t", "e", "s">> >>

activity_chart_words ==
    << <<"e", "x", "e", "r", "c", "i", "s", "e">>,
       <<"w", "o", "r", "k", "o", "u", "t">>,
       <<"a", "c", "t", "i", "v", "i", "t", "y">> >>

nutrition_chart_words ==
    << <<"n", "u", "t", "r", "i", "t", "i", "o", "n">>,
       <<"f", "o", "o", "d">>,
       <<"m", "e", "a", "l">> >>

\* create_glucose_chart: a figure when the user has a reading, among the
\* newest 200, of the last 7 days; None (FALSE here) otherwise
create_glucose_chart(db, t, user_id) ==
    \E i \in 1..Len(get_glucose_readings(db, user_id, 200)) :
        get_glucose_readings(db, user_id, 200)[i].timestamp >= t - 7 * 24

\* create_weekly_activity_chart: a figure when the user has an exercise
create_weekly_activity_chart(db, user_id) ==
    get_exercises(db, user_id, 50) # <<>>

RECURSIVE total_macros(_)
total_macros(rows) ==
    IF rows = <<>> THEN 0
    ELSE Head(rows).carbs + Head(rows).protein + Head(rows).fats
            + total_macros(Tail(rows))

\* create_nutrition_pie_chart: a figure when the user's newest 20 meals
\* hold some carbs, protein or fats
create_nutrition_pie_chart(db, user_id) ==
    /\ get_meals(db, user_id, 20) # <<>>
    /\ total_macros(get_meals(db, user_id, 20)) # 0

\* the list charts: the charts asked for and produced, in the code's order
asked_chart(words, message_lower, produced, name) ==
    IF any_in(words, message_lower) /\ produced THEN <<name>> ELSE <<>>

requested_charts(db, t, user_id, user_message) ==
    IF any_in(visual_words, lower(user_message))
    THEN asked_chart(glucose_chart_words, lower(user_message),
                     create_glucose_chart(db, t, user_id), "glucose")
         \o asked_chart(activity_chart_words, lower(user_message),
                        create_weekly_activity_chart(db, user_id), "activity")
         \o asked_chart(nutrition_chart_words, lower(user_message),
                        create_nutrition_pie_chart(db, user_id), "nutrition")
    ELSE <<>>

\* str(glucose) of the float parse_glucose_input returns: "120.0"
float_str(value) == decimal(value) \o <<".", "0">>

\* the message of the dispatcher with the value zero-padded, "0120.0"
log_glucose_padded(glucose) ==
    SubSeq(M_LogGlucose, 1, 13) \o <<"0">> \o float_str(glucose)

\* f"Log glucose: {glucose}"
log_glucose_message(glucose) == SubSeq(M_LogGlucose, 1, 13) \o float_str(glucose)

\* an agent's process_message, called by the dispatcher on a message
dispatched(agent, message, result) ==
    [result EXCEPT !.trace = << [call |-> "process_message", agent |-> agent,
                                 message |-> message,
                                 returned |-> result.response] >> \o @]

\* the agent's answer, as the list responses gets it
answer_of(result) == IF result.trace = <<>> THEN <<>> ELSE <<result.response>>

\* "if glucose:" with the suggestion "if glucose > 160"
dispatch_diabetes(db, t, user_id, glucose, llm) ==
    IF glucose.found /\ glucose.value # 0
    THEN dispatched("diabetes", log_glucose_message(glucose.value),
             DiabetesAgent_process_message(db, t, user_id,
                                           log_glucose_message(glucose.value), llm))
    ELSE not_invoked(db)

suggestion_for(glucose) ==
    IF glucose.found /\ glucose.value > 160 THEN << [kind |-> "suggestion"] >> ELSE <<>>

\* "if meal:": None and "" are both falsy
dispatch_nutrition(db, t, user_id, user_message, meal, has_rag, rag, llm) ==
    IF meal.found /\ meal.meal # <<>>
    THEN dispatched("nutrition", user_message,
             NutritionAgent_process_message(db, t, user_id, user_message,
                                            has_rag, rag, llm))
    ELSE not_invoked(db)

\* "elif exercise:": the Fitness Agent only when no meal was found
dispatch_fitness_exclusive(db, t, user_id, user_message, exercise_data, has_rag, rag, llm) ==
    IF exercise_data.found /\ ~parse_meal_input(user_message).found
    THEN dispatched("fitness", user_message,
             FitnessAgent_process_message(db, t, user_id, user_message,
                                          has_rag, rag, llm))
    ELSE not_invoked(db)

\* "if exercise:"
dispatch_fitness(db, t, user_id, user_message, exercise_data, has_rag, rag, llm) ==
    IF exercise_data.found
    THEN dispatched("fitness", user_message,
             FitnessAgent_process_message(db, t, user_id, user_message,
                                          has_rag, rag, llm))
    ELSE not_invoked(db)

chart_notes(charts) == [i \in 1..Len(charts) |-> [kind |-> "chart_note", chart |-> charts[i]]]

Greeting == [kind |-> "greeting"]

\* "If no specific data parsed, route normally": chosen is what route returned
route_normally(db, t, user_id, user_message, chosen, nutrition_has_rag, fitness_has_rag, outs) ==
    IF chosen.response = valid_routes[1]
    THEN dispatched("diabetes", user_message,
             DiabetesAgent_process_message(db, t, user_id, user_message, outs.diabetes))
    ELSE IF chosen.response = valid_routes[2]
    THEN dispatched("fitness", user_message,
             FitnessAgent_process_message(db, t, user_id, user_message,
                                          fitness_has_rag, outs.fitness_rag, outs.fitness))
    ELSE IF chosen.response = valid_routes[3]
    THEN dispatched("nutrition", user_message,
             NutritionAgent_process_message(db, t, user_id, user_message,
                                            nutrition_has_rag, outs.nutrition_rag,
                                            outs.nutrition))
    ELSE [db |-> db, response |-> Greeting, raised |-> FALSE, trace |-> <<>>]

\* the value smart_response returns: the responses and the charts
smart_result(db, responses, charts, parsed, trace) ==
    [db       |-> db,
     response |-> [kind |-> "smart", responses |-> responses, charts |-> charts,
                   parsed |-> parsed],
     raised   |-> FALSE,
     trace    |-> trace]

routed_result(chosen, routed, parsed) ==
    smart_result(routed.db, <<routed.response>>, <<>>, parsed,
                 << [call |-> "route", agent |-> "router",
                     returned |-> chosen.response] >> \o chosen.trace \o routed.trace)

charts_done(diabetes, nutrition, fitness, charts, t, user_id, user_message, parsed, nutrition_has_rag, fitness_has_rag, outs) ==
    IF diabetes.trace = <<>> /\ nutrition.trace = <<>> /\ fitness.trace = <<>>
          /\ ~(parsed.glucose.found /\ parsed.glucose.value # 0)
          /\ ~(parsed.meal.found /\ parsed.meal.meal # <<>>)
          /\ ~parsed.exercise.found
          /\ charts = <<>>
    THEN routed_result(route(user_message, outs.router),
                       route_normally(fitness.db, t, user_id, user_message,
                                      route(user_message, outs.router),
                                      nutrition_has_rag, fitness_has_rag, outs),
                       parsed)
    ELSE smart_result(fitness.db,
                      answer_of(diabetes) \o suggestion_for(parsed.glucose)
                         \o answer_of(nutrition) \o answer_of(fitness)
                         \o chart_notes(charts),
                      charts, parsed,
                      diabetes.trace \o nutrition.trace \o fitness.trace)

fitness_dispatched(diabetes, nutrition, fitness, t, user_id, user_message, parsed, nutrition_has_rag, fitness_has_rag, outs) ==
    charts_done(diabetes, nutrition, fitness,
                requested_charts(fitness.db, t, user_id, user_message),
                t, user_id, user_message, parsed, nutrition_has_rag, fitness_has_rag, outs)

nutrition_dispatched(diabetes, nutrition, t, user_id, user_message, parsed, nutrition_has_rag, fitness_has_rag, outs) ==
    fitness_dispatched(diabetes, nutrition,
        dispatch_fitness(nutrition.db, t, user_id, user_message, parsed.exercise,
                         fitness_has_rag, outs.fitness_rag, outs.fitness),
        t, user_id, user_message, parsed, nutrition_has_rag, fitness_has_rag, outs)

diabetes_dispatched(diabetes, t, user_id, user_message, parsed, nutrition_has_rag, fitness_has_rag, outs) ==
    nutrition_dispatched(diabetes,
        dispatch_nutrition(diabetes.db, t, user_id, user_message, parsed.meal,
                           nutrition_has_rag, outs.nutrition_rag, outs.nutrition),
        t, user_id, user_message, parsed, nutrition_has_rag, fitness_has_rag, outs)

\* parsed: what the three classifiers made of the message
smart_parsed(db, t, user_id, user_message, parsed, nutrition_has_rag, fitness_has_rag, outs) ==
    diabetes_dispatched(dispatch_diabetes(db, t, user_id, parsed.glucose, outs.diabetes),
                        t, user_id, user_message, parsed, nutrition_has_rag,
                        fitness_has_rag, outs)

smart_response(db, t, user_id, user_message, nutrition_has_rag, fitness_has_rag, outs) ==
    smart_parsed(db, t, user_id, user_message,
                 [glucose  |-> parse_glucose_input(user_message),
                  meal     |-> parse_meal_input(user_message),
                  exercise |-> parse_exercise_input(user_message)],
                 nutrition_has_rag, fitness_has_rag, outs)

\* messages for the dispatcher
M_ShowGlucose ==
    <<"S", "h", "o", "w", " ", "m", "e", " ", "m", "y", " ", "g", "l", "u", "c", "o", "s", "e", " ", "t", "h", "i", "s", " ", "w", "e", "e", "k">>

M_ShowWorkouts ==
    <<"s", "h", "o", "w", " ", "m", "y", " ", "w", "o", "r", "k", "o", "u", "t", " ", "c", "h", "a", "r", "t">>

DispatchMessages ==
    { M_LogGlucose, reading_message(165), reading_message(45), M_AteChicken,
      M_AteNothing, M_Walk30, M_Ran30, M_AllLog, M_Hello, M_WhyHigh, M_WhyTired,
      M_ShowGlucose, M_ShowWorkouts }

\* the time the first request arrives
StartTime == At(10, 9)

(***************************************************************************)
(* The state machine: one action per operation of the core, run to         *)
(* completion; `last` holds the operation that has just returned or        *)
(* raised, with its arguments, the store before it, its response and the   *)
(* collaborator calls it made in order.                                    *)
(***************************************************************************)
VARIABLES glucose_readings, meals, exercise, now, nutrition_rag, fitness_rag,
          last, requests

vars == <<glucose_readings, meals, exercise, now, nutrition_rag, fitness_rag,
          last, requests>>

\* the number of requests a behaviour serves
MaxRequests == 1

store == [glucose_readings |-> glucose_readings, meals |-> meals, exercise |-> exercise]

Idle == [op |-> "idle"]

Init ==
    /\ \E seed \in SeedStores :
          /\ glucose_readings = seed.glucose_readings
          /\ meals = seed.meals
          /\ exercise = seed.exercise
    /\ now = StartTime
    /\ nutrition_rag \in BOOLEAN
    /\ fitness_rag \in BOOLEAN
    /\ last = Idle
    /\ requests = 0

Ready == last.op = "idle" /\ requests < MaxRequests

\* an operation that reads the store at most
Finish(op, user_id, message, result) ==
    /\ last' = [op |-> op, user_id |-> user_id, message |-> message,
                before |-> store, response |-> result.response,
                raised |-> result.raised, trace |-> result.trace]
    /\ requests' = requests + 1
    /\ UNCHANGED <<now, nutrition_rag, fitness_rag>>

Commit(db) ==
    /\ glucose_readings' = db.glucose_readings
    /\ meals' = db.meals
    /\ exercise' = db.exercise

Route ==
    /\ Ready
    /\ \E message \in Messages, llm \in RouterOutcomes :
          Finish("route", 0, message, route(message, llm))
    /\ UNCHANGED <<glucose_readings, meals, exercise>>

ShouldCoordinate ==
    /\ Ready
    /\ \E message \in Messages :
          Finish("should_coordinate", 0, message,
                 Returned(should_coordinate(message), <<>>))
    /\ UNCHANGED <<glucose_readings, meals, exercise>>

\* an operation that may write to the store
FinishAndCommit(op, user_id, message, result) ==
    Finish(op, user_id, message, result) /\ Commit(result.db)

\* probe: the calls the operation makes when every call succeeds
DiabetesWith(user_id, message, probe) ==
    \E llm \in OutcomesFor(probe, "llm", "diabetes", AgentOutcomes, NotCalled) :
        FinishAndCommit("diabetes", user_id, message,
            DiabetesAgent_process_message(store, now, user_id, message, llm))

DiabetesOn(messages) ==
    /\ Ready
    /\ \E user_id \in Users, message \in messages :
          DiabetesWith(user_id, message,
              DiabetesAgent_process_message(store, now, user_id, message,
                                            Completion(T_Advice)).trace)

DiabetesProcessMessage == DiabetesOn(Messages)

NutritionWith(user_id, message, probe) ==
    \E rag \in OutcomesFor(probe, "rag", "nutrition", RagOutcomes, RagNotCalled),
       llm \in OutcomesFor(probe, "llm", "nutrition", AgentOutcomes, NotCalled) :
        FinishAndCommit("nutrition", user_id, message,
            NutritionAgent_process_message(store, now, user_id, message,
                                           nutrition_rag, rag, llm))

NutritionProcessMessage ==
    /\ Ready
    /\ \E user_id \in Users, message \in Messages :
          NutritionWith(user_id, message,
              NutritionAgent_process_message(store, now, user_id, message, nutrition_rag,
                  Retrieved("guidelines"), Completion(T_Advice)).trace)

FitnessWith(user_id, message, probe) ==
    \E rag \in OutcomesFor(probe, "rag", "fitness", RagOutcomes, RagNotCalled),
       llm \in OutcomesFor(probe, "llm", "fitness", AgentOutcomes, NotCalled) :
        FinishAndCommit("fitness", user_id, message,
            FitnessAgent_process_message(store, now, user_id, message,
                                         fitness_rag, rag, llm))

FitnessProcessMessage ==
    /\ Ready
    /\ \E user_id \in Users, message \in Messages :
          FitnessWith(user_id, message,
              FitnessAgent_process_message(store, now, user_id, message, fitness_rag,
                  Retrieved("guidelines"), Completion(T_Advice)).trace)

AnalyzeWith(user_id, probe) ==
    \E llm \in OutcomesFor(probe, "llm", "pattern", AnalysisOutcomes, NotCalled) :
        Finish("analyze_patterns", user_id, <<>>, analyze_patterns(store, user_id, llm))

AnalyzePatterns ==
    /\ Ready
    /\ \E user_id \in Users :
          AnalyzeWith(user_id, analyze_patterns(store, user_id, Completion(T_Advice)).trace)
    /\ UNCHANGED <<glucose_readings, meals, exercise>>

InsightWith(user_id, question, probe) ==
    \E llm_patterns \in OutcomesFor(probe, "llm", "pattern", AnalysisOutcomes, NotCalled),
       llm \in AnalysisOutcomes :
        Finish("get_specific_insight", user_id, question,
               get_specific_insight(store, user_id, question, llm_patterns, llm))

GetSpecificInsight ==
    /\ Ready
    /\ \E user_id \in Users, question \in Messages :
          InsightWith(user_id, question,
                      analyze_patterns(store, user_id, Completion(T_Advice)).trace)
    /\ UNCHANGED <<glucose_readings, meals, exercise>>

AllSucceed ==
    [pattern |-> Completion(T_Advice), diabetes |-> Completion(T_Advice),
     nutrition_rag |-> Retrieved("guidelines"), nutrition |-> Completion(T_Advice),
     fitness_rag |-> Retrieved("guidelines"), fitness |-> Completion(T_Advice),
     synthesis |-> Completion(T_Advice)]

CoordinateWith(user_id, question, probe) ==
    \E p  \in OutcomesFor(probe, "llm", "pattern", AnalysisOutcomes, NotCalled),
       d  \in OutcomesFor(probe, "llm", "diabetes", AgentOutcomes, NotCalled),
       nr \in OutcomesFor(probe, "rag", "nutrition", RagOutcomes, RagNotCalled),
       n  \in OutcomesFor(probe, "llm", "nutrition", AgentOutcomes, NotCalled),
       fr \in OutcomesFor(probe, "rag", "fitness", RagOutcomes, RagNotCalled),
       f  \in OutcomesFor(probe, "llm", "fitness", AgentOutcomes, NotCalled),
       s  \in AnalysisOutcomes :
        FinishAndCommit("coordinate_analysis", user_id, question,
            coordinate_analysis(store, now, user_id, question, nutrition_rag, fitness_rag,
                [pattern |-> p, diabetes |-> d, nutrition_rag |-> nr, nutrition |-> n,
                 fitness_rag |-> fr, fitness |-> f, synthesis |-> s]))

CoordinateAnalysis ==
    /\ Ready
    /\ \E user_id \in Users, question \in Messages :
          CoordinateWith(user_id, question,
              coordinate_analysis(store, now, user_id, question, nutrition_rag,
                                  fitness_rag, AllSucceed).trace)

GetGlucoseSummary ==
    /\ Ready
    /\ \E user_id \in Users :
          Finish("get_glucose_summary", user_id, <<>>,
                 Returned(get_glucose_summary(store, now, user_id, 7), <<>>))
    /\ UNCHANGED <<glucose_readings, meals, exercise>>

\* the caller takes the response; the next request arrives at once or an
\* hour later
NextRequest ==
    /\ last.op # "idle"
    /\ last' = Idle
    /\ now' \in {now, now + 1}
    /\ UNCHANGED <<glucose_readings, meals, exercise, nutrition_rag, fitness_rag,
                   requests>>

Next ==
    \/ Route
    \/ ShouldCoordinate
    \/ DiabetesProcessMessage
    \/ NutritionProcessMessage
    \/ FitnessProcessMessage
    \/ AnalyzePatterns
    \/ GetSpecificInsight
    \/ CoordinateAnalysis
    \/ GetGlucoseSummary
    \/ NextRequest

Spec == Init /\ [][Next]_vars

(***************************************************************************)
(* The band classification on its own: every level of Levels is classified *)
(* by get_glucose_status and logged through the Diabetes Agent.            *)
(***************************************************************************)
GetGlucoseStatus ==
    /\ Ready
    /\ \E level \in Levels :
          Finish("get_glucose_status", 0, level,
                 Returned(get_glucose_status(level), <<>>))
    /\ UNCHANGED <<glucose_readings, meals, exercise>>

LogGlucoseLevel == DiabetesOn(ReadingMessages)

BandInit == Init /\ ~nutrition_rag /\ ~fitness_rag

BandNext ==
    \/ GetGlucoseStatus
    \/ LogGlucoseLevel
    \/ NextRequest

BandSpec == BandInit /\ [][BandNext]_vars

(***************************************************************************)
(* Pattern Analysis on its own: user 1 has the first ExerciseCount of four *)
(* exercise records (days 7, 7, 8 and 9), up to two readings on exercise   *)
(* days (day 7 and day 8) and up to one on another day (day 1); user 2 has *)
(* no data.                                                                *)
(***************************************************************************)
\* a level of 0 stands for "no such reading"
ExerciseDayLevels == {0, 110, 120, 121}

SecondDayLevels == {0, 120, 121, 145}

RestDayLevels == {0, 100, 110, 128, 130, 140, 141}

ExerciseCounts == {2, 3, 4}

reading_at(timestamp, level) ==
    IF level = 0 THEN <<>> ELSE << G(1, timestamp, level) >>

FindingExercises ==
    << E(1, At(7, 7), W_run, 30, 300), E(1, At(7, 12), W_walk, 20, 80),
       E(1, At(8, 18), W_yoga, 40, 120), E(1, At(9, 13), W_walk, 20, 80) >>

FindingInit ==
    /\ \E x1 \in ExerciseDayLevels, x2 \in SecondDayLevels, y \in RestDayLevels :
          glucose_readings = reading_at(At(1, 8), y) \o reading_at(At(7, 9), x1)
                             \o reading_at(At(8, 20), x2)
    /\ \E n \in ExerciseCounts : exercise = SubSeq(FindingExercises, 1, n)
    /\ meals = <<>>
    /\ now = StartTime
    /\ nutrition_rag = FALSE
    /\ fitness_rag = FALSE
    /\ last = Idle
    /\ requests = 0

FindingNext ==
    \/ AnalyzePatterns
    \/ NextRequest

FindingSpec == FindingInit /\ [][FindingNext]_vars

(***************************************************************************)
(* Pattern Analysis on meals: user 1 has the first MealCount of six meals, *)
(* one a day at noon, and for each meal at most one reading one, two or    *)
(* three hours after it (meal 1 may have a second one two hours after).    *)
(***************************************************************************)
MealNames ==
    << <<"p", "i", "z", "z", "a">>,
       <<"p", "a", "s", "t", "a">>,
       <<"s", "a", "l", "a", "d">>,
       <<"r", "i", "c", "e">>,
       <<"s", "o", "u", "p">>,
       <<"e", "g", "g", "s">> >>

MealLevels == << 150, 120, 180, 110, 160, 120 >>

MealCounts == {4, 5, 6}

\* hours after the meal of its reading; 0 stands for "no reading"
NearOffsets == {1, 2, 3}

FarOffsets == {0, 2}

meal_at(k) == M(1, At(2 + k, 12), MealNames[k], <<>>, 250, 30, 10, 10)

post_reading(k, offset, level) ==
    IF offset = 0 THEN <<>> ELSE << G(1, At(2 + k, 12) + offset, level) >>

MealInit ==
    /\ \E o1 \in NearOffsets, o2 \in NearOffsets, o3 \in NearOffsets,
          o4 \in FarOffsets, o5 \in FarOffsets, first \in {150, 200},
          second \in {0, 2} :
          glucose_readings =
              post_reading(1, o1, first) \o post_reading(1, second, 100)
              \o post_reading(2, o2, MealLevels[2]) \o post_reading(3, o3, MealLevels[3])
              \o post_reading(4, o4, MealLevels[4]) \o post_reading(5, o5, MealLevels[5])
              \o post_reading(6, 2, MealLevels[6])
    /\ \E n \in MealCounts : meals = [k \in 1..n |-> meal_at(k)]
    /\ exercise = <<>>
    /\ now = StartTime
    /\ nutrition_rag = FALSE
    /\ fitness_rag = FALSE
    /\ last = Idle
    /\ requests = 0

MealSpec == MealInit /\ [][FindingNext]_vars

(***************************************************************************)
(* Pattern Analysis on the time of day: user 1 has four readings of 100 in *)
(* the morning, four of one level in the evening (or, like the others, in  *)
(* the morning), one reading at an hour and of a level that vary, and up   *)
(* to two readings at 3 o'clock.                                           *)
(***************************************************************************)
MorningHours == << 6, 8, 11, 9 >>

EveningHours == << 18, 20, 23, 21 >>

EveningLevels == {110, 120, 121, 140}

OddHours == {0, 5, 6, 11, 12, 17, 18, 23}

OddLevels == {100, 160}

NightCounts == {0, 1, 2}

TimeInit ==
    /\ \E level \in EveningLevels, all_morning \in BOOLEAN, hour \in OddHours,
          odd \in OddLevels, nights \in NightCounts :
          glucose_readings =
              [k \in 1..4 |-> G(1, At(k, MorningHours[k]), 100)]
              \o [k \in 1..4 |->
                     G(1, At(k, IF all_morning THEN 7 ELSE EveningHours[k]), level)]
              \o << G(1, At(5, hour), odd) >>
              \o [k \in 1..nights |-> G(1, At(5 + k, 3), 300)]
    /\ meals = <<>>
    /\ exercise = <<>>
    /\ now = StartTime
    /\ nutrition_rag = FALSE
    /\ fitness_rag = FALSE
    /\ last = Idle
    /\ requests = 0

TimeSpec == TimeInit /\ [][FindingNext]_vars

(***************************************************************************)
(* Pattern Analysis on the timing of exercise: user 1 has an exercise on   *)
(* day 7 at about the morning, one on day 8 at about the evening and, or   *)
(* not, one on day 9 at 13 o'clock, with at most one reading on each of    *)
(* days 7 and 8 and a reading on day 1.                                    *)
(***************************************************************************)
EarlyHours == {4, 5, 11, 12}

LateHours == {16, 17, 21, 22}

EarlyDayLevels == {0, 110, 121}

LateDayLevels == {0, 100, 136, 137}

TimingInit ==
    /\ \E early \in EarlyHours, late \in LateHours, n \in {2, 3} :
          exercise = SubSeq(<< E(1, At(7, early), W_run, 30, 300),
                               E(1, At(8, late), W_yoga, 40, 120),
                               E(1, At(9, 13), W_walk, 20, 80) >>, 1, n)
    /\ \E x1 \in EarlyDayLevels, x2 \in LateDayLevels :
          glucose_readings =
              reading_at(At(1, 8), 140) \o reading_at(At(7, 14), x1)
              \o reading_at(At(8, 9), x2)
    /\ meals = <<>>
    /\ now = StartTime
    /\ nutrition_rag = FALSE
    /\ fitness_rag = FALSE
    /\ last = Idle
    /\ requests = 0

TimingSpec == TimingInit /\ [][FindingNext]_vars

(***************************************************************************)
(* The summary on its own: user 1 has one reading of each level in turn,   *)
(* or that reading and one a point higher, within the 7-day window, and an *)
(* older reading outside it; user 2 has no reading.                        *)
(***************************************************************************)
SummaryLevels == GLUCOSE_MIN..GLUCOSE_MAX

SummaryInit ==
    /\ \E level \in SummaryLevels, second \in BOOLEAN :
          glucose_readings =
              << G(1, At(1, 8), 300), G(1, At(9, 8), level) >>
              \o (IF second THEN << G(1, At(9, 20), level + 1) >> ELSE <<>>)
    /\ meals = <<>>
    /\ exercise = <<>>
    /\ now = StartTime
    /\ nutrition_rag = FALSE
    /\ fitness_rag = FALSE
    /\ last = Idle
    /\ requests = 0

SummaryNext ==
    \/ GetGlucoseSummary
    \/ NextRequest

SummarySpec == SummaryInit /\ [][SummaryNext]_vars

(***************************************************************************)
(* The Diabetes Agent on "Log glucose: <level>" for every stated level,    *)
(* those of more than three digits included.                               *)
(***************************************************************************)
LogStatedLevel == DiabetesOn(StatedMessages)

StatedNext ==
    \/ LogStatedLevel
    \/ NextRequest

StatedSpec == BandInit /\ [][StatedNext]_vars

(***************************************************************************)
(* The dispatcher on its own                                               *)
(***************************************************************************)
DispatchSucceed ==
    [router |-> Completion(T_General), diabetes |-> Completion(T_Advice),
     nutrition_rag |-> Retrieved("guidelines"), nutrition |-> Completion(T_Advice),
     fitness_rag |-> Retrieved("guidelines"), fitness |-> Completion(T_Advice)]

\* probe: the calls smart_response makes when the router answers GENERAL;
\* the router's answer decides which Domain Agent's calls are made
SmartWith(user_id, user_message, probe) ==
    \E r \in OutcomesFor(probe, "llm", "router", RouterOutcomes, NotCalled) :
    \E d  \in IF r = Completion(T_Diabetes) THEN AgentOutcomes ELSE {NotCalled},
       nr \in IF r = Completion(T_NutritionMixed) /\ nutrition_rag
              THEN RagOutcomes ELSE {RagNotCalled},
       n  \in IF r = Completion(T_NutritionMixed) THEN AgentOutcomes ELSE {NotCalled},
       fr \in IF r = Completion(T_FitnessPadded) /\ fitness_rag
              THEN RagOutcomes ELSE {RagNotCalled},
       f  \in IF r = Completion(T_FitnessPadded) THEN AgentOutcomes ELSE {NotCalled} :
        FinishAndCommit("smart_response", user_id, user_message,
            smart_response(store, now, user_id, user_message, nutrition_rag, fitness_rag,
                [router |-> r, diabetes |-> d, nutrition_rag |-> nr, nutrition |-> n,
                 fitness_rag |-> fr, fitness |-> f]))

SmartOn(messages) ==
    /\ Ready
    /\ \E user_id \in Users, user_message \in messages :
          SmartWith(user_id, user_message,
              smart_response(store, now, user_id, user_message, nutrition_rag,
                             fitness_rag, DispatchSucceed).trace)

SmartResponse == SmartOn(DispatchMessages)

DispatchNext ==
    \/ SmartResponse
    \/ NextRequest

DispatchSpec == Init /\ [][DispatchNext]_vars

(***************************************************************************)
(* The dispatcher on "Log glucose: <level>" for every stated level         *)
(***************************************************************************)
SmartStatedLevel == SmartOn(StatedMessages)

RoundTripNext ==
    \/ SmartStatedLevel
    \/ NextRequest

RoundTripSpec == BandInit /\ [][RoundTripNext]_vars

(***************************************************************************)
(* Properties.  Each is stated of `last`, the operation that has just      *)
(* returned or raised: its arguments, the store before it, its response    *)
(* and its calls; the store variables hold the store after it.             *)
(***************************************************************************)
\* the calls of one kind in the trace of the last operation
CallsOfKind(kind) == {i \in 1..Len(last.trace) : last.trace[i].call = kind}

\* the completion calls of the last operation that raised
FailedCompletions ==
    {i \in CallsOfKind("llm") : last.trace[i].outcome.raised}

\* the last operation was the coordinator invoking this agent's process_message
Invoked(agent) ==
    \E i \in CallsOfKind("process_message") : last.trace[i].agent = agent

\* what the invoked agent returned to the coordinator
ReturnedBy(agent) ==
    LET i == CHOOSE i \in CallsOfKind("process_message") : last.trace[i].agent = agent
    IN  last.trace[i].returned

\* the synthesis prompt of a coordinate_analysis that got as far as building it
SynthesisPrompt == last.trace[Len(last.trace)].prompt

\* the four labels of the router
RouteLabels ==
    { <<"D", "I", "A", "B", "E", "T", "E", "S", "_", "A", "G", "E", "N", "T">>,
      <<"F", "I", "T", "N", "E", "S", "S", "_", "A", "G", "E", "N", "T">>,
      <<"N", "U", "T", "R", "I", "T", "I", "O", "N", "_", "A", "G", "E", "N", "T">>,
      <<"G", "E", "N", "E", "R", "A", "L">> }

\* C1: whatever the message and whatever the completion service does (any
\* text, or a failure), route does not raise and returns one of the four
\* labels: the trimmed, upper-cased completion text when that is a label,
\* and GENERAL for any other text and when the call raises.
C1_RouteReturnsALabel ==
    last.op = "route" =>
        LET llm  == last.trace[1].outcome
            text == upper(strip(llm.content))
        IN  /\ ~last.raised
            /\ Len(last.trace) = 1
            /\ last.response \in RouteLabels
            /\ last.response = IF ~llm.raised /\ text \in RouteLabels
                               THEN text
                               ELSE <<"G", "E", "N", "E", "R", "A", "L">>

\* C1's case: the completion " fitness_agent\n" is trimmed and upper-cased
\* into the label FITNESS_AGENT
C1_PaddedLabelAccepted ==
    /\ last.op = "route"
    /\ last.trace[1].outcome = Completion(T_FitnessPadded)
    /\ last.response = <<"F", "I", "T", "N", "E", "S", "S", "_", "A", "G", "E", "N", "T">>

\* C2: no operation lets a failure of the completion service out: whenever
\* a completion call made by the operation raised, the operation returns
\* (a text) and does not raise.
C2_NoCompletionFailurePropagates ==
    (last.op # "idle" /\ FailedCompletions # {}) => ~last.raised

\* the six bands of the claim, in order, as ranges of the level
InBand(b, v) ==
    CASE b = 1 -> v < 70
      [] b = 2 -> 70 <= v /\ v < 80
      [] b = 3 -> 80 <= v /\ v <= 130
      [] b = 4 -> 130 < v /\ v <= 180
      [] b = 5 -> 180 < v /\ v <= 250
      [] b = 6 -> v > 250

\* the status get_glucose_status gives each band
StatusOfBand ==
    << "Too Low - Hypoglycemia Risk", "Low - Monitor Closely",
       "Normal (Before Meal Range)", "Good (After Meal Range)",
       "High - Take Action", "Very High - Seek Medical Advice" >>

\* the guidance process_message gives each band
GuidanceOfBand ==
    << "hypoglycemia", "lower end", "before-meal range", "after-meal range",
       "elevated", "very high" >>

\* C3: every glucose value lies in exactly one of the six bands (v<70,
\* 70<=v<80, 80<=v<=130, 130<v<=180, 180<v<=250, v>250), and both
\* get_glucose_status and the guidance branch of the Diabetes Agent's
\* process_message select that band; so 70 is low, 80 and 130 are
\* normal-pre-meal, 180 is normal-post-meal and 250 is high.
C3_ExactlyOneBand ==
    /\ last.op = "get_glucose_status" =>
          \E b \in 1..6 :
              /\ {c \in 1..6 : InBand(c, last.message)} = {b}
              /\ last.response[1] = StatusOfBand[b]
    /\ (last.op = "diabetes" /\ last.response.kind = "glucose_logged") =>
          \E b \in 1..6 :
              /\ {c \in 1..6 : InBand(c, last.response.value)} = {b}
              /\ last.response.status = StatusOfBand[b]
              /\ last.response.guidance = GuidanceOfBand[b]
              /\ last.message = reading_message(last.response.value)

\* C3's case: a logged reading of exactly 130 gets the before-meal guidance
C3_Edge130IsPreMeal ==
    /\ last.op = "diabetes"
    /\ last.message = reading_message(130)
    /\ last.response.kind = "glucose_logged"
    /\ last.response.guidance = "before-meal range"
    /\ last.response.status = "Normal (Before Meal Range)"

\* the number of should_coordinate's three domain sets with a keyword in m
DomainsMentioned(m) ==
    Cardinality({words \in {glucose_domain_words, food_domain_words,
                            exercise_domain_words} :
                    \E k \in 1..Len(words) : Contains(words[k], m)})

\* C4: should_coordinate is true exactly when the lower-cased message
\* starts with "why", or at least two of the three domain keyword sets have
\* a keyword in it, or an optimize keyword occurs in it; so "Why is my
\* glucose high?" and "How can I improve my exercise and diet?" are true
\* and "I ate lunch" is false.
C4_ShouldCoordinate ==
    last.op = "should_coordinate" =>
        LET m == lower(last.message)
        IN  /\ ~last.raised
            /\ last.response =
                  (\/ (Len(m) >= 3 /\ SubSeq(m, 1, 3) = <<"w", "h", "y">>)
                   \/ DomainsMentioned(m) >= 2
                   \/ \E k \in 1..Len(optimize_words) : Contains(optimize_words[k], m))
            /\ last.message \in {M_WhyHigh, M_Improve} => last.response = TRUE
            /\ last.message = M_AteLunch => last.response = FALSE

\* C4's case: "Log glucose: 120" names one domain only, has no optimize
\* keyword and is not coordinated
C4_SingleDomainNotCoordinated ==
    /\ last.op = "should_coordinate"
    /\ last.message = M_LogGlucose
    /\ DomainsMentioned(lower(last.message)) = 1
    /\ last.response = FALSE

\* C5: every coordinate_analysis, whatever the question, calls
\* analyze_patterns exactly once and first, before any Domain Agent and so
\* on the store as it was before any record an agent appends in the same
\* call; the text it returned is the Pattern Analysis section of the
\* synthesis prompt.
C5_PatternAnalysisFirst ==
    last.op = "coordinate_analysis" =>
        /\ CallsOfKind("analyze_patterns") = {1}
        /\ \A i \in CallsOfKind("process_message") \cup CallsOfKind("add_glucose_reading")
                    \cup CallsOfKind("add_meal") \cup CallsOfKind("add_exercise") : i > 1
        /\ \A i \in CallsOfKind("llm") :
              last.trace[i].agent = "pattern" =>
                  /\ i = 2
                  /\ last.trace[i].prompt.patterns =
                        find_patterns(get_glucose_readings(last.before, last.user_id, 100),
                                      get_meals(last.before, last.user_id, 100),
                                      get_exercises(last.before, last.user_id, 100))
        /\ ~last.trace[1].raised =>
              /\ ~last.raised
              /\ last.trace[Len(last.trace)].call = "llm"
              /\ last.trace[Len(last.trace)].agent = "coordinator"
              /\ SynthesisPrompt.pattern_insights = last.trace[1].returned

\* C5's case: a question that makes an agent append a record, answered with
\* the narrative Pattern Analysis wrote from the store as it was
C5_AnalysisBeforeAppend ==
    /\ last.op = "coordinate_analysis"
    /\ ~last.raised
    /\ Len(glucose_readings) = Len(last.before.glucose_readings) + 1
    /\ last.trace[1].returned = CompletionText(T_Advice)
    /\ SynthesisPrompt.pattern_insights = CompletionText(T_Advice)

Agents == {"diabetes", "nutrition", "fitness"}

\* the words coordinate_analysis tests before it invokes the agent
TriggerWords(agent) ==
    CASE agent = "diabetes"  -> diabetes_trigger_words
      [] agent = "nutrition" -> nutrition_trigger_words
      [] agent = "fitness"   -> fitness_trigger_words

\* the words should_coordinate tests to count the agent's domain
CountedWords(agent) ==
    CASE agent = "diabetes"  -> glucose_domain_words
      [] agent = "nutrition" -> food_domain_words
      [] agent = "fitness"   -> exercise_domain_words

WordOccurs(words, m) == \E k \in 1..Len(words) : Contains(words[k], m)

PromptSection(agent) ==
    CASE agent = "diabetes"  -> SynthesisPrompt.diabetes_insights
      [] agent = "nutrition" -> SynthesisPrompt.nutrition_insights
      [] agent = "fitness"   -> SynthesisPrompt.fitness_insights

\* C7: in the synthesis prompt, the section of every Domain Agent that was
\* invoked is the text the agent returned, whatever that text, and the
\* section of every agent that was not invoked is the "Not consulted for
\* this query" placeholder.
C7_InvokedAgentTextKept ==
    (last.op = "coordinate_analysis" /\ ~last.raised) =>
        \A agent \in Agents :
            PromptSection(agent) =
                IF Invoked(agent) THEN ReturnedBy(agent) ELSE NotConsulted

\* the table holds the rows it held before and one more, of this user
OneRowAppended(table, table_before, user_id) ==
    /\ Len(table) = Len(table_before) + 1
    /\ SubSeq(table, 1, Len(table_before)) = table_before
    /\ table[Len(table)].user_id = user_id

\* the logging path: no completion call, no retrieval call, the templated
\* acknowledgment
LoggingPath(acknowledgment) ==
    /\ ~last.raised
    /\ CallsOfKind("llm") = {}
    /\ CallsOfKind("rag") = {}
    /\ last.response.kind = acknowledgment

\* the narrative path: no record, one completion call
NarrativePath ==
    /\ store = last.before
    /\ Cardinality(CallsOfKind("llm")) = 1

\* C8: when the agent's classifier yields a value for the message (a
\* reading, a non-empty meal name, an activity with its duration),
\* process_message appends exactly one record of its own kind for the user,
\* leaves the other tables alone, calls neither the completion service nor
\* the retrieval service and returns the templated acknowledgment;
\* otherwise it appends nothing and calls the completion service once.
C8_LogOrAsk ==
    /\ last.op = "diabetes" =>
          IF parse_glucose_input(last.message).found
          THEN /\ LoggingPath("glucose_logged")
               /\ OneRowAppended(glucose_readings, last.before.glucose_readings,
                                 last.user_id)
               /\ meals = last.before.meals /\ exercise = last.before.exercise
          ELSE NarrativePath
    /\ last.op = "nutrition" =>
          IF /\ parse_meal_input(last.message).found
             /\ parse_meal_input(last.message).meal # <<>>
          THEN /\ LoggingPath("meal_logged")
               /\ OneRowAppended(meals, last.before.meals, last.user_id)
               /\ glucose_readings = last.before.glucose_readings
               /\ exercise = last.before.exercise
          ELSE NarrativePath
    /\ last.op = "fitness" =>
          IF parse_exercise_input(last.message).found
          THEN /\ LoggingPath("exercise_logged")
               /\ OneRowAppended(exercise, last.before.exercise, last.user_id)
               /\ glucose_readings = last.before.glucose_readings
               /\ meals = last.before.meals
          ELSE NarrativePath

\* C8's case: "I ate grilled chicken." is logged as one meal of user 1
\* without any call to a collaborator
C8_MealLogged ==
    /\ last.op = "nutrition"
    /\ last.message = M_AteChicken
    /\ last.user_id = 1
    /\ last.response.kind = "meal_logged"
    /\ last.trace = << [call |-> "add_meal", agent |-> "nutrition"] >>
    /\ Len(meals) = Len(last.before.meals) + 1

\* C9: when the completion call of a Domain Agent's narrative path raises,
\* process_message does not raise, returns the apology that embeds the
\* failure description and leaves the Log Store as it was.
C9_NarrativeFailureApology ==
    (last.op \in Agents /\ FailedCompletions # {}) =>
        \A i \in FailedCompletions :
            /\ ~last.raised
            /\ last.response = [kind |-> "apology", error |-> last.trace[i].outcome.error]
            /\ store = last.before

\* C9's case: the Fitness Agent's completion call times out on "hello"
C9_FitnessApologises ==
    /\ last.op = "fitness"
    /\ FailedCompletions # {}
    /\ last.response = [kind |-> "apology", error |-> "timeout"]

\* an integer followed by min / minute / minutes occurs in m
HasDurationPattern(m) ==
    \E i \in 1..Len(m) :
        \E j \in i..Len(m) :
            /\ \A k \in i..j : IsDigit(m[k])
            /\ \E w \in (j + 1)..(Len(m) + 1) :
                  /\ \A k \in (j + 1)..(w - 1) : m[k] \in WHITESPACE
                  /\ OccursAt(<<"m", "i", "n">>, m, w)

\* an activity keyword of the fixed vocabulary occurs in m
HasActivityKeyword(m) == \E k \in 1..Len(activities) : Contains(activities[k], m)

\* C10: parse_exercise_input yields an activity with its duration only when
\* both a duration pattern and an activity keyword occur in the message,
\* and nothing at all otherwise: "30 minutes" and "I ran" yield no match;
\* and without a match the Fitness Agent appends no exercise record.
C10_ActivityAndDuration ==
    last.op = "fitness" =>
        LET parsed == parse_exercise_input(last.message)
            m      == lower(last.message)
        IN  /\ parsed.found => HasDurationPattern(m) /\ HasActivityKeyword(m)
            /\ ~(HasDurationPattern(m) /\ HasActivityKeyword(m)) =>
                  parsed = [found |-> FALSE, activity |-> <<>>, duration |-> 0]
            /\ last.message \in {M_Minutes30, M_IRan} => ~parsed.found
            /\ (last.response.kind = "exercise_logged") <=> parsed.found
            /\ ~parsed.found => exercise = last.before.exercise

\* C10's case: "30 minutes" has a duration and no activity keyword; the
\* Fitness Agent asks the completion service and appends nothing
C10_DurationAloneNoRecord ==
    /\ last.op = "fitness"
    /\ last.message = M_Minutes30
    /\ HasDurationPattern(lower(last.message))
    /\ ~HasActivityKeyword(lower(last.message))
    /\ last.response.kind # "exercise_logged"
    /\ exercise = last.before.exercise

\* C11: "I ran for 30 minutes" is a complete exercise entry:
\* parse_exercise_input yields ("run", 30) for it and the Fitness Agent
\* takes the logging path.
C11_RanFor30IsLogged ==
    (last.op = "fitness" /\ last.message = M_Ran30) =>
        /\ parse_exercise_input(last.message) =
              [found |-> TRUE, activity |-> W_run, duration |-> 30]
        /\ last.response.kind = "exercise_logged"
        /\ Len(exercise) = Len(last.before.exercise) + 1

\* the lead-in phrases that the lower-cased message m starts with
LeadIns(m) == {k \in 1..Len(prefixes) : startswith(m, prefixes[k])}

\* C12: the meal extractor strips the first lead-in phrase of its list that
\* the message starts with (case-insensitively) and returns the rest,
\* trimmed and without trailing punctuation; it returns no match when the
\* message starts with no lead-in phrase, also when one occurs later in it.
C12_LeadInIsAPrefix ==
    last.op = "nutrition" =>
        LET m == lower(last.message)
        IN  parse_meal_input(last.message) =
                IF LeadIns(m) = {} THEN NoMeal
                ELSE [found |-> TRUE,
                      meal  |-> rstrip(strip(SubSeq(m, Len(prefixes[Min(LeadIns(m))]) + 1,
                                                    Len(m))),
                                       {".", ",", "!", "?"})]

\* the data analyze_patterns read in the last operation
GlucoseRead == get_glucose_readings(last.before, last.user_id, 100)

MealsRead == get_meals(last.before, last.user_id, 100)

ExercisesRead == get_exercises(last.before, last.user_id, 100)

\* the readings taken on a date with an exercise record, and the others
OnExerciseDates ==
    {i \in 1..Len(GlucoseRead) :
        \E k \in 1..Len(ExercisesRead) :
            Date(GlucoseRead[i].timestamp) = Date(ExercisesRead[k].timestamp)}

OffExerciseDates == (1..Len(GlucoseRead)) \ OnExerciseDates

LevelSum(ids) == SumOf([i \in ids |-> GlucoseRead[i].glucose_level], ids)

\* |mean of the readings off exercise dates - mean of those on them| > bound,
\* both sets non-empty
MeansApartBy(bound) ==
    Abs(LevelSum(OffExerciseDates) * Cardinality(OnExerciseDates)
        - LevelSum(OnExerciseDates) * Cardinality(OffExerciseDates))
      > bound * Cardinality(OnExerciseDates) * Cardinality(OffExerciseDates)

\* the findings handed to the completion service by the last operation
FindingsSent ==
    IF CallsOfKind("llm") = {} THEN <<>>
    ELSE last.trace[Min(CallsOfKind("llm"))].prompt.patterns

FindingsOfKind(kind) ==
    {i \in 1..Len(FindingsSent) : FindingsSent[i].kind = kind}

\* the two means are exactly `on` and `off`
MeansAre(on, off) ==
    /\ OnExerciseDates # {} /\ OffExerciseDates # {}
    /\ LevelSum(OnExerciseDates) = on * Cardinality(OnExerciseDates)
    /\ LevelSum(OffExerciseDates) = off * Cardinality(OffExerciseDates)

\* C13: the exercise-glucose finding is produced exactly when the user has
\* at least 3 exercise records, readings both on exercise dates and on other
\* dates, and the two means differ by more than 10; it is Strong when they
\* differ by more than 20 and Moderate otherwise.  140 against 115 is
\* Strong, a difference of 8 or of exactly 10 gives no finding, exactly 20
\* gives Moderate.
C13_ExerciseGlucoseGate ==
    (last.op = "analyze_patterns" /\ GlucoseRead # <<>>) =>
        LET finding == analyze_exercise_glucose_correlation(GlucoseRead, ExercisesRead)
            passes  == /\ Len(ExercisesRead) >= 3
                       /\ OnExerciseDates # {}
                       /\ OffExerciseDates # {}
                       /\ MeansApartBy(10)
        IN  /\ finding.found <=> passes
            /\ FindingsOfKind("exercise_glucose") # {} <=> passes
            /\ \A i \in FindingsOfKind("exercise_glucose") :
                  /\ FindingsSent[i] = finding
                  /\ FindingsSent[i].strength =
                        IF MeansApartBy(20) THEN "Strong" ELSE "Moderate"
            /\ (Len(ExercisesRead) >= 3 /\ MeansAre(115, 140)) =>
                  finding.found /\ finding.strength = "Strong"
            /\ (MeansAre(120, 128) \/ MeansAre(120, 130)) => ~finding.found
            /\ (Len(ExercisesRead) >= 3 /\ MeansAre(120, 140)) =>
                  finding.found /\ finding.strength = "Moderate"

\* C13's case: with three exercise records, 140 off and exactly 120 on
\* exercise dates, the finding is sent to the completion service as Moderate
C13_Exactly20IsModerate ==
    /\ last.op = "analyze_patterns"
    /\ Len(ExercisesRead) >= 3
    /\ MeansAre(120, 140)
    /\ \E i \in FindingsOfKind("exercise_glucose") :
          FindingsSent[i].strength = "Moderate"

\* the four analyses of analyze_patterns on the data it read
AnalysesRun ==
    << analyze_exercise_glucose_correlation(GlucoseRead, ExercisesRead),
       analyze_meal_glucose_correlation(GlucoseRead, MealsRead),
       analyze_time_patterns(GlucoseRead),
       analyze_exercise_timing(GlucoseRead, ExercisesRead) >>

FindingsPassed == {k \in 1..4 : AnalysesRun[k].found}

\* C14: analyze_patterns returns the "not enough data" message when the
\* user has no glucose record and the "need more data" message when there
\* are records and no finding passes, without any completion call; it calls
\* the completion service, once, only when a finding passed, and hands it
\* every finding that passed.
C14_CompletionOnlyWithFindings ==
    last.op = "analyze_patterns" =>
        /\ GlucoseRead = <<>> =>
              /\ ~last.raised
              /\ last.response = [kind |-> "not_enough_data"]
              /\ CallsOfKind("llm") = {}
        /\ (GlucoseRead # <<>> /\ FindingsPassed = {}) =>
              /\ ~last.raised
              /\ last.response = [kind |-> "need_more_data"]
              /\ CallsOfKind("llm") = {}
        /\ Cardinality(CallsOfKind("llm")) <= 1
        /\ CallsOfKind("llm") # {} <=> (GlucoseRead # <<>> /\ FindingsPassed # {})
        /\ CallsOfKind("llm") # {} =>
              /\ Len(FindingsSent) = Cardinality(FindingsPassed)
              /\ \A k \in FindingsPassed :
                    \E i \in 1..Len(FindingsSent) : FindingsSent[i] = AnalysesRun[k]

\* C14's case: readings, three exercise records and no finding: the "need
\* more data" message, and no completion call
C14_NoFindingNoCompletion ==
    /\ last.op = "analyze_patterns"
    /\ GlucoseRead # <<>>
    /\ Len(ExercisesRead) >= 3
    /\ FindingsPassed = {}
    /\ last.response = [kind |-> "need_more_data"]
    /\ last.trace = <<>>

\* the number of rows of the table that the user owns
RowsOf(table, user_id) ==
    Cardinality({i \in 1..Len(table) : table[i].user_id = user_id})

\* the limits tried for a recency query: the number of the user's rows, one
\* more, and the limits the agents use
LimitsFor(table, user_id) ==
    {limit \in {RowsOf(table, user_id), RowsOf(table, user_id) + 1, 10, 100} :
        limit >= RowsOf(table, user_id)}

\* rows are in descending order of timestamp
NewestFirst(rows) ==
    \A i \in 1..Len(rows) : \A j \in i..Len(rows) :
        rows[i].timestamp >= rows[j].timestamp

\* the rows read back hold all the user's rows and nobody else's, newest
\* first, and the row just appended is among them
ReadBack(rows, table, appended) ==
    /\ Len(rows) = RowsOf(table, last.user_id)
    /\ \A i \in 1..Len(rows) : rows[i].user_id = last.user_id
    /\ NewestFirst(rows)
    /\ \E i \in 1..Len(rows) : rows[i] = appended
    /\ rows[1].timestamp = appended.timestamp

\* C15: after the logging path of a Domain Agent has committed a record for
\* a user, the recency query of that kind for that user, with any limit not
\* below the number of the user's records, returns the record with the
\* fields the agent logged (the glucose value; the meal name, type and
\* estimates; the activity, duration, calories burned and intensity), among
\* the user's records in descending order of time.
C15_LoggedRecordReadBack ==
    /\ (last.op = "diabetes" /\ last.response.kind = "glucose_logged") =>
          \A limit \in LimitsFor(glucose_readings, last.user_id) :
              ReadBack(get_glucose_readings(store, last.user_id, limit), glucose_readings,
                       [user_id |-> last.user_id, timestamp |-> now,
                        glucose_level |-> parse_glucose_input(last.message).value,
                        is_demo_data |-> FALSE])
    /\ (last.op = "nutrition" /\ last.response.kind = "meal_logged") =>
          \A limit \in LimitsFor(meals, last.user_id) :
              ReadBack(get_meals(store, last.user_id, limit), meals,
                       [user_id |-> last.user_id, timestamp |-> now,
                        meal_name |-> parse_meal_input(last.message).meal,
                        meal_type |-> last.response.meal_type,
                        calories  |-> last.response.nutrition.calories,
                        carbs     |-> last.response.nutrition.carbs,
                        protein   |-> last.response.nutrition.protein,
                        fats      |-> last.response.nutrition.fats,
                        is_demo_data |-> FALSE])
    /\ (last.op = "fitness" /\ last.response.kind = "exercise_logged") =>
          \A limit \in LimitsFor(exercise, last.user_id) :
              ReadBack(get_exercises(store, last.user_id, limit), exercise,
                       [user_id |-> last.user_id, timestamp |-> now,
                        activity_type |-> parse_exercise_input(last.message).activity,
                        duration |-> parse_exercise_input(last.message).duration,
                        calories_burned |-> last.response.calories,
                        intensity |-> "moderate",
                        is_demo_data |-> FALSE])

\* C15's case: user 1, with three exercise records, logs "30 min walk" and
\* reads it back first of four: walk, 30 minutes, 120 calories, moderate
C15_WalkReadBack ==
    /\ last.op = "fitness"
    /\ last.message = M_Walk30
    /\ last.user_id = 1
    /\ Len(last.before.exercise) = 3
    /\ LET rows == get_exercises(store, 1, 4)
       IN  /\ Len(rows) = 4
           /\ rows[1].activity_type = W_walk
           /\ rows[1].duration = 30
           /\ rows[1].calories_burned = 120
           /\ rows[1].intensity = "moderate"

\* the rows of a table that the user owns
OwnRows(table, user_id) ==
    LET OfUser(row) == row.user_id = user_id
    IN  SelectSeq(table, OfUser)

\* the store with the records of every other user removed
OwnedBy(db, user_id) ==
    [glucose_readings |-> OwnRows(db.glucose_readings, user_id),
     meals            |-> OwnRows(db.meals, user_id),
     exercise         |-> OwnRows(db.exercise, user_id)]

\* everything the core reads for a user: the recency queries at the limits
\* in use, the statistics, the data summaries of the narrative prompts and
\* the pattern findings
ReadsFor(db, user_id) ==
    [glucose_readings |-> [limit \in {1, 10, 100} |->
                              get_glucose_readings(db, user_id, limit)],
     meals            |-> [limit \in {1, 10, 100} |-> get_meals(db, user_id, limit)],
     exercises        |-> [limit \in {1, 10, 100} |-> get_exercises(db, user_id, limit)],
     stats            |-> get_glucose_stats(db, now, user_id, 7),
     glucose_data     |-> format_glucose_data(get_glucose_readings(db, user_id, 10)),
     meal_data        |-> format_meal_data(get_meals(db, user_id, 10)),
     exercise_data    |-> format_exercise_data(get_exercises(db, user_id, 10)),
     patterns         |-> find_patterns(get_glucose_readings(db, user_id, 100),
                                        get_meals(db, user_id, 100),
                                        get_exercises(db, user_id, 100))]

\* C16: whatever has been appended, every read for a user returns rows of
\* that user only and is what it would be if the store held that user's
\* records alone; and an append made for one user leaves every read for
\* every other user as it was.
C16_UserIsolation ==
    \A u \in Users :
        /\ \A limit \in {1, 10, 100} :
              /\ \A i \in 1..Len(get_glucose_readings(store, u, limit)) :
                    get_glucose_readings(store, u, limit)[i].user_id = u
              /\ \A i \in 1..Len(get_meals(store, u, limit)) :
                    get_meals(store, u, limit)[i].user_id = u
              /\ \A i \in 1..Len(get_exercises(store, u, limit)) :
                    get_exercises(store, u, limit)[i].user_id = u
        /\ ReadsFor(store, u) = ReadsFor(OwnedBy(store, u), u)
        /\ (last.op \in Agents \cup {"coordinate_analysis"} /\ u # last.user_id) =>
              ReadsFor(store, u) = ReadsFor(last.before, u)

\* C16's case: user 2 logs a glucose reading; the statistics of user 1, who
\* has three readings in the window, are what they were
C16_OtherUsersAppend ==
    /\ last.op = "diabetes"
    /\ last.user_id = 2
    /\ Len(glucose_readings) = Len(last.before.glucose_readings) + 1
    /\ get_glucose_stats(store, now, 1, 7).reading_count = 3
    /\ get_glucose_stats(store, now, 1, 7) = get_glucose_stats(last.before, now, 1, 7)

\* the last operation summarised an average that is the whole number x
SummaryOfAverage(x) ==
    /\ last.op = "get_glucose_summary"
    /\ last.response.kind = "glucose_summary"
    /\ last.response.average[1] = x * last.response.average[2]

\* C17 as claimed: the summary reads the average with the band table of the
\* single-reading acknowledgment: the wording for an average of x differs
\* from the wording for x + 1 exactly where the acknowledgment of a single
\* reading of x differs from that of x + 1 (at 70, 80, 130, 180 and 250).
C17_SameBandTable ==
    \A x \in SummaryLevels :
        SummaryOfAverage(x) =>
            /\ last.response.interpretation = summary_interpretation(x, 1)
            /\ (summary_interpretation(x, 1) # summary_interpretation(x + 1, 1))
                  <=> (glucose_feedback(x) # glucose_feedback(x + 1))

\* the acknowledgment bands below each boundary the two tables share
AcknowledgedBelow(x, boundary) ==
    CASE boundary = 80  -> glucose_feedback(x) \in {"hypoglycemia", "lower end"}
      [] boundary = 130 -> glucose_feedback(x) \in
                              {"hypoglycemia", "lower end", "before-meal range"}
      [] boundary = 180 -> glucose_feedback(x) \in
                              {"hypoglycemia", "lower end", "before-meal range",
                               "after-meal range"}

SummarisedBelow(wording, boundary) ==
    CASE boundary = 80  -> wording = "low"
      [] boundary = 130 -> wording \in {"low", "excellent"}
      [] boundary = 180 -> wording \in {"low", "excellent", "good", "slightly elevated"}

\* C17 as amended: the summary reads the average a of the window with a
\* table of its own (a < 80 low, 80 <= a <= 130 excellent, 130 < a <= 154
\* good, 154 < a <= 180 slightly elevated, a > 180 high); it shares the
\* boundaries 80, 130 and 180, with their inclusiveness, with the
\* acknowledgment of a single reading, has no boundary at 70 or 250 and
\* has one at 154.
C17_SummaryBandTable ==
    (last.op = "get_glucose_summary" /\ last.response.kind = "glucose_summary") =>
        LET sum   == last.response.average[1]
            count == last.response.average[2]
        IN  /\ count = get_glucose_stats(last.before, now, last.user_id, 7).reading_count
            /\ sum = get_glucose_stats(last.before, now, last.user_id, 7).sum_glucose
            /\ last.response.interpretation =
                  CASE sum < 80 * count                         -> "low"
                    [] 80 * count <= sum /\ sum <= 130 * count  -> "excellent"
                    [] 130 * count < sum /\ sum <= 154 * count  -> "good"
                    [] 154 * count < sum /\ sum <= 180 * count  -> "slightly elevated"
                    [] sum > 180 * count                        -> "high"
            /\ \A x \in SummaryLevels :
                  SummaryOfAverage(x) =>
                      \A boundary \in {80, 130, 180} :
                          SummarisedBelow(last.response.interpretation, boundary)
                              <=> AcknowledgedBelow(x, boundary)

\* C17's case: an average of exactly 155 is read as slightly elevated,
\* where a single reading of 155 is acknowledged as in the after-meal range
\* like one of 154
C17_Average155SlightlyElevated ==
    /\ SummaryOfAverage(155)
    /\ last.response.count = 1
    /\ last.response.interpretation = "slightly elevated"
    /\ glucose_feedback(155) = glucose_feedback(154)

\* the last operation gave the Diabetes Agent "Log glucose: <level>", whose
\* only number is level
StatedReading(level) ==
    /\ last.op = "diabetes"
    /\ last.message = reading_message(level)

\* C18: when the only number of the message, the stated glucose value, is
\* below 50 or above 400 (numbers of more than three digits included),
\* parse_glucose_input finds no match, the Diabetes Agent commits no
\* reading and the message goes to the completion service.
C18_OutOfRangeIsNoMatch ==
    \A level \in StatedLevels :
        (StatedReading(level) /\ (level < GLUCOSE_MIN \/ level > GLUCOSE_MAX)) =>
            /\ ~parse_glucose_input(last.message).found
            /\ glucose_readings = last.before.glucose_readings
            /\ last.response.kind # "glucose_logged"
            /\ \E i \in 1..Len(last.trace) : last.trace[i].call = "llm"

\* the agent's input classifier did not match the last message, so
\* process_message took its narrative path
ClassifierMissed(agent) ==
    /\ last.op = agent
    /\ CASE agent = "nutrition" ->
                ~(parse_meal_input(last.message).found
                    /\ parse_meal_input(last.message).meal # <<>>)
         [] agent = "fitness" -> ~parse_exercise_input(last.message).found

HoldsRetrieval(agent) == IF agent = "nutrition" THEN nutrition_rag ELSE fitness_rag

RetrievalRaised(agent) ==
    \E i \in 1..Len(last.trace) :
        /\ last.trace[i].call = "rag"
        /\ last.trace[i].agent = agent
        /\ last.trace[i].outcome.raised

\* C19: on the narrative path of the Nutrition and Fitness agents, when the
\* agent holds no retrieval capability or the retrieval call raises, the
\* completion call is still made, once, with a prompt that holds no
\* reference text, and process_message does not raise: it returns the
\* completion's text (the apology when the completion call itself fails)
\* and leaves the store as it was.
C19_RetrievalFailureProceeds ==
    \A agent \in {"nutrition", "fitness"} :
        (ClassifierMissed(agent) /\ (~HoldsRetrieval(agent) \/ RetrievalRaised(agent))) =>
            /\ ~last.raised
            /\ store = last.before
            /\ \E i \in 1..Len(last.trace) :
                  /\ last.trace[i].call = "llm"
                  /\ last.trace[i].agent = agent
                  /\ last.trace[i].prompt.rag_context = ""
                  /\ last.trace[i].prompt.user_message = last.message
                  /\ \A j \in 1..Len(last.trace) :
                        last.trace[j].call = "llm" => j = i
                  /\ last.response = narrative_reply(last.trace[i].outcome)
                  /\ ~last.trace[i].outcome.raised =>
                        last.response = CompletionText(last.trace[i].outcome.content)
            /\ ~HoldsRetrieval(agent) =>
                  \A j \in 1..Len(last.trace) : last.trace[j].call # "rag"

\* C19's case: the Fitness Agent's retrieval raises and the completion's
\* advice is returned
C19_FitnessRetrievalRaised ==
    /\ ClassifierMissed("fitness")
    /\ last.message = M_WhyTired
    /\ fitness_rag
    /\ RetrievalRaised("fitness")
    /\ last.response = CompletionText(T_Advice)

\* table is the table before with exactly one record appended when
\* appended holds, and the table before otherwise
GrownByOneIff(table, before, appended) ==
    IF appended
    THEN Len(table) = Len(before) + 1 /\ SubSeq(table, 1, Len(before)) = before
    ELSE table = before

\* C20: coordinate_analysis appends a record of a kind exactly when that
\* kind's Domain Agent is keyword-triggered by the question and the
\* agent's input classifier matches the question, and then exactly one;
\* Pattern Analysis on its own leaves the Log Store unchanged.
C20_AppendsWhenTriggeredAndMatched ==
    /\ last.op = "coordinate_analysis" =>
          /\ GrownByOneIff(glucose_readings, last.before.glucose_readings,
                 triggers_diabetes(last.message)
                    /\ parse_glucose_input(last.message).found)
          /\ GrownByOneIff(meals, last.before.meals,
                 triggers_nutrition(last.message)
                    /\ parse_meal_input(last.message).found)
          /\ GrownByOneIff(exercise, last.before.exercise,
                 triggers_fitness(last.message)
                    /\ parse_exercise_input(last.message).found)
    /\ last.op \in {"analyze_patterns", "get_specific_insight"} => store = last.before

\* the same of the calls of coordinate_analysis that return
C20_AppendsWhenReturned ==
    (last.op = "coordinate_analysis" /\ ~last.raised) =>
        C20_AppendsWhenTriggeredAndMatched

\* the calls of process_message the dispatcher made on the agent
Dispatched(agent) ==
    {i \in 1..Len(last.trace) :
        last.trace[i].call = "process_message" /\ last.trace[i].agent = agent}

RouterConsulted == \E i \in 1..Len(last.trace) : last.trace[i].call = "route"

\* the classifier of the agent matched the message: it returned a value
\* that is not None and not empty
ClassifierMatched(agent, message) ==
    CASE agent = "diabetes"  -> parse_glucose_input(message).found
      [] agent = "nutrition" -> parse_meal_input(message).found
                                   /\ parse_meal_input(message).meal # <<>>
      [] agent = "fitness"   -> parse_exercise_input(message).found

DomainAgents == {"diabetes", "nutrition", "fitness"}

\* C21: smart_response runs the three input classifiers on the message and
\* invokes the Diabetes, Nutrition and Fitness agent once for each
\* classifier that matches, whatever the others did; the Router is
\* consulted only (and then always) when no classifier matched and no chart
\* was produced, and then at most one Domain Agent is invoked, and none,
\* with nothing logged, when the route is GENERAL.
C21_OneAgentPerMatch ==
    last.op = "smart_response" =>
        /\ last.response.parsed =
              [glucose  |-> parse_glucose_input(last.message),
               meal     |-> parse_meal_input(last.message),
               exercise |-> parse_exercise_input(last.message)]
        /\ RouterConsulted <=>
              /\ \A agent \in DomainAgents : ~ClassifierMatched(agent, last.message)
              /\ last.response.charts = <<>>
        /\ ~RouterConsulted =>
              \A agent \in DomainAgents :
                  Cardinality(Dispatched(agent)) =
                      IF ClassifierMatched(agent, last.message) THEN 1 ELSE 0
        /\ RouterConsulted =>
              /\ Cardinality(UNION {Dispatched(agent) : agent \in DomainAgents}) <= 1
              /\ (\E i \in 1..Len(last.trace) :
                      last.trace[i].call = "route" /\ last.trace[i].returned = W_GENERAL)
                  => /\ \A agent \in DomainAgents : Dispatched(agent) = {}
                     /\ store = last.before

\* C21's case: "glucose 150 mg/dL, I had a meal, 20 min workout" matches
\* all three classifiers; each agent is invoked once and logs its record
C21_ThreeMatchesThreeAgents ==
    /\ last.op = "smart_response"
    /\ last.message = M_AllLog
    /\ \A agent \in DomainAgents : Cardinality(Dispatched(agent)) = 1
    /\ ~RouterConsulted
    /\ Len(glucose_readings) = Len(last.before.glucose_readings) + 1
    /\ Len(meals) = Len(last.before.meals) + 1
    /\ Len(exercise) = Len(last.before.exercise) + 1

\* the readings read that lie two hours after the k-th meal read: with
\* times in whole hours, those strictly between one and three hours after
PostWindow(k) ==
    {i \in 1..Len(GlucoseRead) : GlucoseRead[i].timestamp = MealsRead[k].timestamp + 2}

MealsWithPost == {k \in 1..Len(MealsRead) : PostWindow(k) # {}}

\* the post-glucose value of meal k is at least that of meal j
PostGeq(k, j) ==
    LevelSum(PostWindow(k)) * Cardinality(PostWindow(j))
        >= LevelSum(PostWindow(j)) * Cardinality(PostWindow(k))

\* avg is the mean of the post-glucose values of meals k and j
PairMean(avg, k, j) ==
    avg.sum * 2 * Cardinality(PostWindow(k)) * Cardinality(PostWindow(j))
        = avg.n * (LevelSum(PostWindow(k)) * Cardinality(PostWindow(j))
                     + LevelSum(PostWindow(j)) * Cardinality(PostWindow(k)))

\* names and avg are those of the two meals that come first when the meals
\* with a post-glucose value are ranked, highest first or lowest first
TopTwo(names, avg, highest) ==
    \E k \in MealsWithPost : \E j \in MealsWithPost \ {k} :
        /\ names = << MealsRead[k].meal_name, MealsRead[j].meal_name >>
        /\ IF highest THEN PostGeq(k, j) ELSE PostGeq(j, k)
        /\ \A other \in MealsWithPost \ {k, j} :
              IF highest THEN PostGeq(j, other) ELSE PostGeq(other, j)
        /\ PairMean(avg, k, j)

BucketHours ==
    [Morning |-> {6, 7, 8, 9, 10, 11}, Afternoon |-> {12, 13, 14, 15, 16, 17},
     Evening |-> {18, 19, 20, 21, 22, 23}]

BucketNames == {"Morning", "Afternoon", "Evening"}

\* the readings read whose hour lies in the bucket
InBucket(name) ==
    {i \in 1..Len(GlucoseRead) : Hour(GlucoseRead[i].timestamp) \in BucketHours[name]}

NonEmptyBuckets == {name \in BucketNames : InBucket(name) # {}}

\* mean of bucket a - mean of bucket b > bound, both buckets non-empty
BucketsApartBy(a, b, bound) ==
    LevelSum(InBucket(a)) * Cardinality(InBucket(b))
        - LevelSum(InBucket(b)) * Cardinality(InBucket(a))
      > bound * Cardinality(InBucket(a)) * Cardinality(InBucket(b))

\* the mean of bucket a is at least that of every non-empty bucket
HighestBucket(a) == \A b \in NonEmptyBuckets : ~BucketsApartBy(b, a, 0)

LowestBucket(a) == \A b \in NonEmptyBuckets : ~BucketsApartBy(a, b, 0)

\* C23: the time-of-day finding is produced exactly when there are at least
\* 10 glucose readings and, over the non-empty buckets Morning (hours
\* 6..11), Afternoon (12..17) and Evening (18..23), the highest bucket mean
\* exceeds the lowest by more than 20; readings of hours 0..5 are in no
\* bucket, a difference of exactly 20 or a single non-empty bucket gives no
\* finding, and the finding names the highest and the lowest bucket.
C23_TimeOfDayFinding ==
    (last.op = "analyze_patterns" /\ GlucoseRead # <<>>) =>
        LET finding == analyze_time_patterns(GlucoseRead)
            passes  == /\ Len(GlucoseRead) >= 10
                       /\ \E a \in NonEmptyBuckets, b \in NonEmptyBuckets :
                             BucketsApartBy(a, b, 20)
        IN  /\ finding.found <=> passes
            /\ FindingsOfKind("time_of_day") # {} <=> passes
            /\ Cardinality(NonEmptyBuckets) <= 1 => ~finding.found
            /\ \A i \in FindingsOfKind("time_of_day") :
                  /\ FindingsSent[i] = finding
                  /\ FindingsSent[i].highest.name \in NonEmptyBuckets
                  /\ FindingsSent[i].lowest.name \in NonEmptyBuckets
                  /\ HighestBucket(FindingsSent[i].highest.name)
                  /\ LowestBucket(FindingsSent[i].lowest.name)
                  /\ FindingsSent[i].highest.mean =
                        [sum |-> LevelSum(InBucket(FindingsSent[i].highest.name)),
                         n   |-> Cardinality(InBucket(FindingsSent[i].highest.name))]
                  /\ FindingsSent[i].lowest.mean =
                        [sum |-> LevelSum(InBucket(FindingsSent[i].lowest.name)),
                         n   |-> Cardinality(InBucket(FindingsSent[i].lowest.name))]

\* C23's case: ten readings, one of them at 5 o'clock and one at 3; the
\* four of the evening are 121 and the four of the morning 100: the finding
\* names Evening highest and Morning lowest
C23_EveningOver20 ==
    /\ last.op = "analyze_patterns"
    /\ Len(GlucoseRead) = 10
    /\ Cardinality(InBucket("Morning")) = 4
    /\ Cardinality(InBucket("Evening")) = 4
    /\ LevelSum(InBucket("Evening")) = 4 * 121
    /\ \E i \in FindingsOfKind("time_of_day") :
          /\ FindingsSent[i].highest.name = "Evening"
          /\ FindingsSent[i].lowest.name = "Morning"

\* the hours of the two sides of the claim
SideHours == [morning |-> {5, 6, 7, 8, 9, 10, 11}, evening |-> {17, 18, 19, 20, 21}]

\* the readings read on the dates of the exercises of the side
OnSideDates(side) ==
    {i \in 1..Len(GlucoseRead) :
        \E k \in 1..Len(ExercisesRead) :
            /\ Hour(ExercisesRead[k].timestamp) \in SideHours[side]
            /\ Date(ExercisesRead[k].timestamp) = Date(GlucoseRead[i].timestamp)}

\* mean over the dates of side a - mean over those of side b > bound
SidesApartBy(a, b, bound) ==
    LevelSum(OnSideDates(a)) * Cardinality(OnSideDates(b))
        - LevelSum(OnSideDates(b)) * Cardinality(OnSideDates(a))
      > bound * Cardinality(OnSideDates(a)) * Cardinality(OnSideDates(b))

SideMean(side) ==
    [sum |-> LevelSum(OnSideDates(side)), n |-> Cardinality(OnSideDates(side))]

OtherSide(side) == IF side = "morning" THEN "evening" ELSE "morning"

\* C24: the exercise-timing finding is produced exactly when there are at
\* least 3 exercise records, the Morning side (exercise hour 5..11) and the
\* Evening side (17..21) both have exercises with glucose readings on
\* their dates, and the two sides' mean glucose differ by more than 15
\* (exactly 15 gives no finding); the finding names the side with the
\* lower mean as the better time.
C24_ExerciseTimingFinding ==
    (last.op = "analyze_patterns" /\ GlucoseRead # <<>>) =>
        LET finding == analyze_exercise_timing(GlucoseRead, ExercisesRead)
            passes  == /\ Len(ExercisesRead) >= 3
                       /\ OnSideDates("morning") # {}
                       /\ OnSideDates("evening") # {}
                       /\ \/ SidesApartBy("morning", "evening", 15)
                          \/ SidesApartBy("evening", "morning", 15)
        IN  /\ finding.found <=> passes
            /\ FindingsOfKind("exercise_timing") # {} <=> passes
            /\ \A i \in FindingsOfKind("exercise_timing") :
                  /\ FindingsSent[i] = finding
                  /\ FindingsSent[i].better_time \in {"morning", "evening"}
                  /\ SidesApartBy(OtherSide(FindingsSent[i].better_time),
                                  FindingsSent[i].better_time, 15)
                  /\ FindingsSent[i].better_avg = SideMean(FindingsSent[i].better_time)
                  /\ FindingsSent[i].worse_avg =
                        SideMean(OtherSide(FindingsSent[i].better_time))

\* C24's case: an exercise at 11 with a reading of 121 on its day, one at
\* 17 with a reading of 137 on its day and a third at 13: the finding names
\* the morning, 121 against 137
C24_MorningBetterBy16 ==
    /\ last.op = "analyze_patterns"
    /\ Len(ExercisesRead) = 3
    /\ \E k \in 1..3 : Hour(ExercisesRead[k].timestamp) = 11
    /\ \E k \in 1..3 : Hour(ExercisesRead[k].timestamp) = 17
    /\ SideMean("morning") = [sum |-> 121, n |-> 1]
    /\ SideMean("evening") = [sum |-> 137, n |-> 1]
    /\ \E i \in FindingsOfKind("exercise_timing") :
          FindingsSent[i].better_time = "morning"

\* the synthesis calls coordinate_analysis made
SynthesisCalls ==
    {i \in CallsOfKind("llm") : last.trace[i].agent = "coordinator"}

\* C25: when the synthesis completion call succeeds, the result of
\* coordinate_analysis is the completion's text followed by the disclosure
\* footer; when it fails, the result is the coordination apology with the
\* failure's description, without the footer, and nothing is raised.
C25_FooterOrApology ==
    last.op = "coordinate_analysis" =>
        /\ Cardinality(SynthesisCalls) <= 1
        /\ \A i \in SynthesisCalls :
              /\ ~last.raised
              /\ IF last.trace[i].outcome.raised
                 THEN last.response = [kind  |-> "coordination_apology",
                                       error |-> last.trace[i].outcome.error]
                 ELSE last.response = [kind    |-> "coordinated",
                                       content |-> last.trace[i].outcome.content,
                                       footer  |-> TRUE]
        /\ (SynthesisCalls = {}) => last.raised

\* C25's case: the synthesis call fails after the Diabetes Agent answered
C25_SynthesisFailed ==
    /\ last.op = "coordinate_analysis"
    /\ last.message = M_WhyHigh
    /\ CallsOf(last.trace, "process_message", "diabetes") # {}
    /\ \E i \in SynthesisCalls : last.trace[i].outcome = Failure("rate limit")
    /\ last.response = [kind |-> "coordination_apology", error |-> "rate limit"]

\* C26: every value parse_glucose_input returns, and so every glucose
\* reading the Diabetes Agent commits through process_message, is a whole
\* number from 50 to 400; no reading outside that range is in the store.
C26_LoggedInRange ==
    /\ \A i \in 1..Len(glucose_readings) :
          glucose_readings[i].glucose_level \in GLUCOSE_MIN..GLUCOSE_MAX
    /\ last.op = "diabetes" =>
          /\ parse_glucose_input(last.message).found =>
                parse_glucose_input(last.message).value \in GLUCOSE_MIN..GLUCOSE_MAX
          /\ last.response.kind = "glucose_logged" =>
                /\ last.response.value = parse_glucose_input(last.message).value
                /\ glucose_readings[Len(glucose_readings)].glucose_level
                      = last.response.value
          /\ last.response.kind # "glucose_logged" =>
                glucose_readings = last.before.glucose_readings

\* C26's case: "Log glucose: 400" is logged as 400 and "Log glucose: 401"
\* would not be
C26_Edge400Logged ==
    /\ StatedReading(400)
    /\ last.response.kind = "glucose_logged"
    /\ Len(glucose_readings) = Len(last.before.glucose_readings) + 1
    /\ glucose_readings[Len(glucose_readings)].glucose_level = 400
    /\ ~parse_glucose_input(reading_message(401)).found

\* the rows of table a are the first rows of table b, unchanged
IsPrefixOf(a, b) == Len(a) <= Len(b) /\ SubSeq(b, 1, Len(a)) = a

\* the number of commits of a kind that a trace holds
Commits(trace, call) == Cardinality({i \in 1..Len(trace) : trace[i].call = call})

ReadOnlyOperations ==
    {"route", "should_coordinate", "analyze_patterns", "get_specific_insight",
     "get_glucose_summary"}

\* one step of the system, as C27 has it
AppendOnlyStep ==
    /\ IsPrefixOf(glucose_readings, glucose_readings')
    /\ IsPrefixOf(meals, meals')
    /\ IsPrefixOf(exercise, exercise')
    /\ last'.op = "idle" => store' = store
    /\ last'.op # "idle" =>
          /\ Len(glucose_readings') =
                Len(glucose_readings) + Commits(last'.trace, "add_glucose_reading")
          /\ Len(meals') = Len(meals) + Commits(last'.trace, "add_meal")
          /\ Len(exercise') = Len(exercise) + Commits(last'.trace, "add_exercise")
          /\ last'.op \in ReadOnlyOperations =>
                /\ store' = store
                /\ \A i \in 1..Len(last'.trace) :
                      last'.trace[i].call \notin
                          {"add_glucose_reading", "add_meal", "add_exercise"}

\* C27: the store is append-only: across router, Domain Agent, coordinator
\* and Pattern Analysis operations no glucose, meal or exercise record is
\* modified or removed; each table grows by exactly one record per commit
\* of a logging path, and the reading operations leave the store unchanged.
C27_AppendOnly == [][AppendOnlyStep]_vars

\* C27's case: the coordinator, on a question that three agents log from,
\* leaves every earlier record in place and adds one of each kind
C27_ThreeAppended ==
    /\ last.op = "coordinate_analysis"
    /\ last.message = M_AllLog
    /\ last.before.exercise # <<>>
    /\ IsPrefixOf(last.before.glucose_readings, glucose_readings)
    /\ IsPrefixOf(last.before.meals, meals)
    /\ IsPrefixOf(last.before.exercise, exercise)
    /\ Len(glucose_readings) = Len(last.before.glucose_readings) + 1
    /\ Len(meals) = Len(last.before.meals) + 1
    /\ Len(exercise) = Len(last.before.exercise) + 1

\* the completion calls coordinate_analysis led the agent to make
CompletionsBy(agent) == {i \in CallsOfKind("llm") : last.trace[i].agent = agent}

AgentTriggered(agent) ==
    CASE agent = "diabetes"  -> triggers_diabetes(last.message)
      [] agent = "nutrition" -> triggers_nutrition(last.message)
      [] agent = "fitness"   -> triggers_fitness(last.message)

\* C28: coordinate_analysis ends after a sequential chain of at most 5
\* completion calls: at most one by Pattern Analysis, at most one by each
\* triggered Domain Agent and none by the others, and at most one
\* synthesis call, which is the last completion call of the execution.
C28_AtMostFiveCompletions ==
    last.op = "coordinate_analysis" =>
        /\ Cardinality(CallsOfKind("llm")) <= 5
        /\ Cardinality(CompletionsBy("pattern")) <= 1
        /\ \A agent \in DomainAgents :
              /\ Cardinality(CompletionsBy(agent)) <= 1
              /\ CompletionsBy(agent) # {} => AgentTriggered(agent)
        /\ Cardinality(CompletionsBy("coordinator")) <= 1
        /\ \A i \in CompletionsBy("coordinator") : \A j \in CallsOfKind("llm") : j <= i
        /\ \A i \in CallsOfKind("llm") :
              last.trace[i].agent \in DomainAgents \cup {"pattern", "coordinator"}
        /\ \A i \in CompletionsBy("pattern") : \A j \in CallsOfKind("llm") : i <= j

\* C28's case: a question that triggers the three Domain Agents and is
\* logged by none, for a user with a pattern finding: five completion
\* calls, the synthesis last
C28_FiveCompletions ==
    /\ last.op = "coordinate_analysis"
    /\ Cardinality(CallsOfKind("llm")) = 5
    /\ \A agent \in DomainAgents : Cardinality(CompletionsBy(agent)) = 1
    /\ last.trace[Len(last.trace)].agent = "coordinator"
    /\ last.response.kind = "coordinated"

\* the status label and the guidance sentence are those of one band
SameBand(status, guidance) ==
    \E b \in 1..6 : status = StatusOfBand[b] /\ guidance = GuidanceOfBand[b]

\* C29: for every glucose value v, the status label get_glucose_status(v)
\* returns and the guidance sentence process_message appends for v belong
\* to the same band, so no acknowledgment pairs the status of one band with
\* the guidance of another.
C29_StatusAndGuidanceAgree ==
    /\ last.op = "get_glucose_status" =>
          SameBand(last.response[1], glucose_feedback(last.message))
    /\ (last.op = "diabetes" /\ last.response.kind = "glucose_logged") =>
          /\ SameBand(last.response.status, last.response.guidance)
          /\ last.response.status = get_glucose_status(last.response.value)[1]
          /\ last.response.guidance = glucose_feedback(last.response.value)

\* C29's case: a reading of exactly 180 is acknowledged with the status and
\* the guidance of the after-meal band, one of 181 with those of the next
C29_Edge180Agrees ==
    /\ last.op = "diabetes"
    /\ last.message = reading_message(180)
    /\ last.response.kind = "glucose_logged"
    /\ last.response.status = "Good (After Meal Range)"
    /\ last.response.guidance = "after-meal range"
    /\ get_glucose_status(181)[1] = "High - Take Action"
    /\ glucose_feedback(181) = "elevated"

\* C30: for every value v that parse_glucose_input extracts from the
\* user's message, the message smart_response writes for the Diabetes
\* Agent ("Log glucose: " and v as Python prints the float, "120.0") is
\* parsed by the agent back to v: the agent takes its logging path and the
\* value committed is the value the dispatcher extracted.
C30_RewrittenMessageRoundTrip ==
    (last.op = "smart_response" /\ parse_glucose_input(last.message).found) =>
        /\ Cardinality(Dispatched("diabetes")) = 1
        /\ \A i \in Dispatched("diabetes") :
              /\ last.trace[i].message =
                    log_glucose_message(parse_glucose_input(last.message).value)
              /\ parse_glucose_input(last.trace[i].message)
                    = parse_glucose_input(last.message)
              /\ last.trace[i].returned.kind = "glucose_logged"
              /\ last.trace[i].returned.value = parse_glucose_input(last.message).value
        /\ glucose_readings =
              Append(last.before.glucose_readings,
                     G(last.user_id, now, parse_glucose_input(last.message).value))
        /\ CallsOfKind("llm") = {}

\* C30's case: the dispatcher extracts 99 from "Log glucose: 99", hands the
\* agent "Log glucose: 99.0" and the agent logs 99
C30_NinetyNineRoundTrip ==
    /\ last.op = "smart_response"
    /\ last.message = reading_message(99)
    /\ \E i \in Dispatched("diabetes") :
          /\ last.trace[i].message = reading_message(99) \o <<".", "0">>
          /\ last.trace[i].returned.kind = "glucose_logged"
    /\ glucose_readings[Len(glucose_readings)].glucose_level = 99

====
